---- MODULE Spec2Model ----
(***************************************************************************)
(* Model of broccoli-persistent-filter: the Filter build loop (index.ts),  *)
(* its Dependencies tracker (lib/dependencies.ts) and the default          *)
(* processing strategy (DefaultStrategy).                                  *)
(*                                                                         *)
(* Relative paths are sequences of one-character strings so that the       *)
(* string operations of getDestFilePath are computed, not assumed.         *)
(* A JavaScript value that may be null/undefined is modelled as a set with *)
(* at most one element: {} is null, {x} is the value x.                    *)
(***************************************************************************)
EXTENDS Integers, Sequences, FiniteSets, TLC

VARIABLES
  env,          \* what the constructor reads: options.concurrency and persist, env JOBS, CI, ..., os.cpus().length
  cfg,          \* the instance fields the constructor sets (extensions, async, concurrency, ...)
  clock,        \* the filesystem clock (source of mtimes)
  input,        \* the input tree (inputPaths[0]): path -> node
  ext,          \* one file outside the input tree that transforms may depend on
  output,       \* the output tree (outputPath): path -> node
  currentTree,  \* this.currentTree: the snapshot retained from the previous build
  dependencies, \* this.dependencies: {} (null) or {Dependencies instance}
  needsReset,   \* this._needsReset
  outputLinks,  \* this._outputLinks: set of output paths flagged true
  pc,           \* "new" before construction; then the position of the build: "idle", "patching", "queue"
  patches,      \* the merged patch list of the running build
  patchIdx,     \* index of the next patch mapSeries will dispatch
  invalidated,  \* the list getInvalidatedFiles returned for the running build
  pendingWork,  \* async mode: the queued create/change operations not yet started
  inFlight,     \* async mode: operations started by the queue and not yet settled
  firstError,   \* async mode: the first task failure seen by the queue ({} if none)
  lastResult,   \* how the last build settled: "none", "ok", "early", "failed"
  psCalls,      \* paths passed to processString during the current/last build (in order)
  ppCalls,      \* paths passed to postProcess during the current/last build (in order)
  settled,      \* async mode: tasks of the current/last build that settled, with their outcome
  builds,       \* number of builds started
  hist,         \* history kept for stating properties (never read by the program)
  call,         \* the last call made on a unit taken on its own (its arguments and result)
  input2,       \* the tree at a second input directory, to which dependencies are rebased
  cache         \* the persistent cache, shared by successive instances

vars == << env, cfg, clock, input, ext, output, currentTree, dependencies,
           needsReset, outputLinks, pc, patches, patchIdx, invalidated,
           pendingWork, inFlight, firstError, lastResult, psCalls, ppCalls,
           settled, builds, hist, call, input2, cache >>

(***************************************************************************)
(* Bounds of the model.                                                    *)
(***************************************************************************)
MaxClock == 2     \* number of filesystem edits explored
MaxBuilds == 2    \* number of builds explored

Min(a, b) == IF a < b THEN a ELSE b
Max(a, b) == IF a > b THEN a ELSE b

Range(s) == { s[i] : i \in 1..Len(s) }

(***************************************************************************)
(* Paths.                                                                  *)
(***************************************************************************)
P_a_js   == << "a", ".", "j", "s" >>
P_a_md   == << "a", ".", "m", "d" >>
P_d      == << "d", "/" >>
P_d_b_js == << "d", "/", "b", ".", "j", "s" >>
P_d_b_md == << "d", "/", "b", ".", "m", "d" >>

\* The input paths of the model in the lexicographic order walkSync yields.
AllPaths == << P_a_js, P_a_md, P_d, P_d_b_js >>
InPaths  == Range(AllPaths)
\* Every path that can exist in the output tree.
OutPaths == InPaths \cup { P_d_b_md }

PathIndex(p) == CHOOSE i \in 1..Len(AllPaths) : AllPaths[i] = p

\* Entry.isDirectory(): walkSync gives directory entries a trailing slash.
IsDirectoryPath(p) == Len(p) > 0 /\ p[Len(p)] = "/"

\* path.dirname, as the set of parent directories a path needs in this universe.
ParentDirs(p) == { d \in OutPaths : /\ IsDirectoryPath(d)
                                    /\ Len(d) < Len(p)
                                    /\ SubSeq(p, 1, Len(d)) = d }

(***************************************************************************)
(* String.prototype.slice(start, end): 0-based, end exclusive, negative    *)
(* indices count from the end.                                             *)
(***************************************************************************)
JsIndex(n, i) == IF i < 0 THEN Max(n + i, 0) ELSE Min(i, n)

Slice(s, start, end) ==
  LET b == JsIndex(Len(s), start)
      e == JsIndex(Len(s), end)
  IN IF b >= e THEN << >> ELSE SubSeq(s, b + 1, e)

SliceFrom(s, start) == Slice(s, start, Len(s))

(***************************************************************************)
(* Filter.getDestFilePath / canProcessFile / isDirectory.                  *)
(***************************************************************************)
isDirectory(relativePath) == IsDirectoryPath(relativePath)

\* The loop over this.extensions, from index i on.
RECURSIVE MatchExtension(_, _, _, _)
MatchExtension(extensions, targetExtension, relativePath, i) ==
  IF i > Len(extensions) THEN {}
  ELSE LET e == extensions[i] IN
       IF SliceFrom(relativePath, -Len(e) - 1) = << "." >> \o e
       THEN IF targetExtension # {}
            THEN { Slice(relativePath, 0, -Len(e)) \o (CHOOSE t \in targetExtension : TRUE) }
            ELSE { relativePath }
       ELSE MatchExtension(extensions, targetExtension, relativePath, i + 1)

\* getDestFilePath, given what this.isDirectory(relativePath, entry) returns.
getDestFilePathFor(isDir, extensions, targetExtension, relativePath) ==
  IF isDir THEN {}
  ELSE IF extensions = {} THEN { relativePath }
  ELSE MatchExtension(CHOOSE x \in extensions : TRUE, targetExtension, relativePath, 1)

getDestFilePathOf(extensions, targetExtension, relativePath) ==
  getDestFilePathFor(isDirectory(relativePath), extensions, targetExtension, relativePath)

getDestFilePath(relativePath) ==
  getDestFilePathOf(cfg.extensions, cfg.targetExtension, relativePath)

\* !!getDestFilePath(...): null and the empty string are both falsy.
canProcessFile(relativePath) ==
  \E d \in getDestFilePath(relativePath) : d # << >>

\* getDestFilePath(relativePath, entry) || relativePath
OutputPathOf(relativePath) ==
  IF canProcessFile(relativePath)
  THEN CHOOSE d \in getDestFilePath(relativePath) : TRUE
  ELSE relativePath

(***************************************************************************)
(* Filter.constructor: the resolution of this.concurrency.                 *)
(*   (options && options.concurrency) || Number(process.env.JOBS)          *)
(*                                    || Math.max(cpus().length - 1, 1)    *)
(* options.concurrency is {} (not given) or {n}.  env JOBS is {} (unset)   *)
(* or {[numeric, n]}: Number() of a non-numeric string or of undefined is  *)
(* NaN, modelled as {}.                                                    *)
(***************************************************************************)
NumberOf(str) ==
  IF str = {} THEN {}
  ELSE LET s == CHOOSE x \in str : TRUE IN IF s.numeric THEN { s.n } ELSE {}

\* a || b on numbers-or-undefined: a if a is truthy (neither 0, NaN nor undefined)
OrElse(a, b) == IF a # {} /\ a # { 0 } THEN a ELSE b

\* Variant: JOBS is consulted before options.concurrency.
ResolveConcurrency_JobsFirst(optConcurrency, jobs, cpus) ==
  CHOOSE n \in OrElse(OrElse(NumberOf(jobs), optConcurrency), { Max(cpus - 1, 1) }) : TRUE

ResolveConcurrency(optConcurrency, jobs, cpus) ==
  CHOOSE n \in OrElse(OrElse(optConcurrency, NumberOf(jobs)), { Max(cpus - 1, 1) }) : TRUE

(***************************************************************************)
(* File contents.  A source file is a text version v plus at most one      *)
(* inline directive naming another file (as the Inliner test filter reads  *)
(* them); the transform output is the version plus the inlined text.       *)
(***************************************************************************)
Versions == { 1, 2 }

\* Absolute paths: a path below the input root, or a path elsewhere.
Local(p)  == [ root |-> "in",  rel |-> p ]
ExtFile   == [ root |-> "out", rel |-> << "x" >> ]

PlainContent(v)  == [ v |-> v, ref |-> {} ]
RefContent(v, t) == [ v |-> v, ref |-> { t } ]

\* The contents the model writes into each file: plain text in either
\* version, or text with a directive referring to another file.
ContentsFor(p) ==
  { PlainContent(v) : v \in Versions } \cup
  ( IF p = P_a_js
    THEN { RefContent(1, Local(P_d_b_js)) }
    ELSE IF p = P_d_b_js
    THEN { RefContent(1, Local(P_a_js)), RefContent(1, ExtFile) }
    ELSE {} )
NoContent == [ v |-> 0, ref |-> {} ]

\* Stand-in for the byte length of a file.
SizeOf(c) == IF c.ref = {} THEN 1 ELSE 2

\* A node of the file system: its kind, content, mtime and mode (0 is the
\* mode files are created with).
Absent    == [ k |-> "absent", c |-> NoContent, m |-> 0, mode |-> 0 ]
DirNode   == [ k |-> "dir",    c |-> NoContent, m |-> 0, mode |-> 0 ]
FileNode(c, m) == [ k |-> "file", c |-> c, m |-> m, mode |-> 0 ]

NoText    == [ v |-> 0, inl |-> {}, pp |-> 0 ]
OutAbsent == [ k |-> "absent", text |-> NoText, to |-> {}, stamp |-> 0 ]
OutDir    == [ k |-> "dir",    text |-> NoText, to |-> {}, stamp |-> 0 ]
OutFile(text, stamp) == [ k |-> "file", text |-> text, to |-> {}, stamp |-> stamp ]
OutLink(p) == [ k |-> "link", text |-> NoText, to |-> { p }, stamp |-> 0 ]

EmptyInput  == [ p \in InPaths  |-> Absent ]
EmptyOutput == [ p \in OutPaths |-> OutAbsent ]

(***************************************************************************)
(* Snapshots (FSTree) and their diff.  A tree is a set of entries with     *)
(* distinct relative paths; AllPaths gives the sorted order of entries.    *)
(***************************************************************************)
MkEntry(p, node) ==
  IF node.k = "dir"
  THEN [ relativePath |-> p, size |-> 0, mtime |-> 0 ]
  ELSE [ relativePath |-> p, size |-> SizeOf(node.c), mtime |-> node.m ]

\* this.input.entries('./') followed by FSTree.fromEntries
WalkInput == { MkEntry(p, input[p]) : p \in { q \in InPaths : input[q].k # "absent" } }

EmptyTree == {}

TreePaths(tree) == { e.relativePath : e \in tree }
TreeEntry(tree, p) == CHOOSE e \in tree : e.relativePath = p

\* fs-tree-diff's default isEqual: directory changes are ignored, files are
\* compared by size and mtime (the mode is not modelled: it never changes).
EntryIsEqual(a, b) ==
  \/ isDirectory(a.relativePath) /\ isDirectory(b.relativePath)
  \/ a.size = b.size /\ a.mtime = b.mtime

Patch(op, p, entry) == [ op |-> op, path |-> p, entry |-> entry ]

Reverse(s) == [ i \in 1..Len(s) |-> s[Len(s) + 1 - i] ]

\* The removals of a diff, in ascending path order from index i on.
RECURSIVE Removals(_, _, _)
Removals(ours, theirs, i) ==
  IF i > Len(AllPaths) THEN << >>
  ELSE LET p == AllPaths[i] IN
       ( IF p \in TreePaths(ours) /\ p \notin TreePaths(theirs)
         THEN << Patch(IF isDirectory(p) THEN "rmdir" ELSE "unlink", p, TreeEntry(ours, p)) >>
         ELSE << >> ) \o Removals(ours, theirs, i + 1)

\* The additions and updates of a diff, in ascending path order from index i on.
RECURSIVE Additions(_, _, _)
Additions(ours, theirs, i) ==
  IF i > Len(AllPaths) THEN << >>
  ELSE LET p == AllPaths[i] IN
       ( IF p \in TreePaths(theirs) /\ p \notin TreePaths(ours)
         THEN << Patch(IF isDirectory(p) THEN "mkdir" ELSE "create", p, TreeEntry(theirs, p)) >>
         ELSE IF /\ p \in TreePaths(theirs) /\ p \in TreePaths(ours)
                 /\ ~ EntryIsEqual(TreeEntry(ours, p), TreeEntry(theirs, p))
         THEN << Patch("change", p, TreeEntry(theirs, p)) >>
         ELSE << >> ) \o Additions(ours, theirs, i + 1)

\* FSTree.calculatePatch: removals deepest first, then additions and changes.
calculatePatch(ours, theirs) ==
  Reverse(Removals(ours, theirs, 1)) \o Additions(ours, theirs, 1)

\* invalidationsAsPatches(invalidated, currentTree, nextTree), from index i on.
RECURSIVE invalidationsAsPatchesFrom(_, _, _, _)
invalidationsAsPatchesFrom(invalidatedFiles, current, next, i) ==
  IF i > Len(invalidatedFiles) THEN << >>
  ELSE LET file == invalidatedFiles[i] IN
       ( IF file \in TreePaths(current)
         THEN << Patch("change", file, TreeEntry(current, file)) >>
         ELSE IF file \in TreePaths(next)
         THEN << Patch("create", file, TreeEntry(next, file)) >>
         ELSE << >> ) \o invalidationsAsPatchesFrom(invalidatedFiles, current, next, i + 1)

\* Variant: invalidated files yield no patch.
invalidationsAsPatches_None(invalidatedFiles, current, next) == << >>

invalidationsAsPatches(invalidatedFiles, current, next) ==
  invalidationsAsPatchesFrom(invalidatedFiles, current, next, 1)

\* Keeps the first occurrence of every (operation, path) pair of a patch list.
RECURSIVE DedupPatches(_, _)
DedupPatches(ps, i) ==
  IF i > Len(ps) THEN << >>
  ELSE ( IF \E j \in 1..(i - 1) : ps[j].op = ps[i].op /\ ps[j].path = ps[i].path
         THEN << >> ELSE << ps[i] >> ) \o DedupPatches(ps, i + 1)

\* Variant: duplicates are kept.
addPatches_KeepDuplicates(invalidationPatches, diffPatches) ==
  diffPatches \o invalidationPatches

\* Variant: the invalidation patches come first.
addPatches_InvalidationsFirst(invalidationPatches, diffPatches) ==
  DedupPatches(invalidationPatches \o diffPatches, 1)

\* addPatches(invalidationPatches, patches): the invalidation patches are
\* appended to the diff and duplicates are dropped.
addPatches(invalidationPatches, diffPatches) ==
  DedupPatches(diffPatches \o invalidationPatches, 1)

(***************************************************************************)
(* Dependencies (lib/dependencies.ts).  An instance is a record; Map       *)
(* objects are functions whose DOMAIN is the key set.  Map iteration       *)
(* order is taken to be path order.                                        *)
(***************************************************************************)
EmptyMap == [ x \in {} |-> {} ]

\* The persistent cache before anything is stored: no serialized
\* dependencies, no entry.
EmptyCache == [ deps |-> {}, entries |-> [ x \in {} |-> {} ] ]
MapSet(m, k, val) == [ x \in DOMAIN m \cup { k } |-> IF x = k THEN val ELSE m[x] ]
MapWithout(m, ks) == [ x \in DOMAIN m \ ks |-> m[x] ]

SortedPaths(S) == SelectSeq(AllPaths, LAMBDA p : p \in S)

\* The file system root, and the directories absolute paths lie in: the
\* input directory, a second input directory, and a directory elsewhere.
FsRoot == "/"

\* The node at an absolute path.
NodeAt(abs) ==
  IF abs.root = "in" /\ abs.rel \in InPaths THEN input[abs.rel]
  ELSE IF abs.root = "in2" /\ abs.rel \in InPaths THEN input2[abs.rel]
  ELSE IF abs = ExtFile THEN ext
  ELSE Absent

\* path.join(fsRoot, dependency).  A path relative to the file system root
\* is written as the absolute path itself.
JoinRoot(fsRoot, dependency) ==
  IF fsRoot = FsRoot THEN dependency ELSE [ root |-> fsRoot, rel |-> dependency ]

\* seal(): the root a dependency is filed under, and path.relative(depRoot, dep)
DepRootOf(rootDir, dep) == IF dep.root = rootDir THEN rootDir ELSE FsRoot
RelativeTo(depRoot, dep) == IF depRoot = FsRoot THEN dep ELSE dep.rel

\* new Dependencies(rootDir, options)
NewDependenciesAt(rootDir) ==
  [ sealed          |-> FALSE,
    rootDir         |-> rootDir,
    dependencyMap   |-> EmptyMap,
    allDependencies |-> EmptyMap,
    fsTrees         |-> EmptyMap,
    dependentsMap   |-> EmptyMap ]

\* new Dependencies(this.inputPaths[0], ...)
NewDependencies == NewDependenciesAt("in")

\* The body of seal()'s inner loop for one referer, from dependency i on.
RECURSIVE SealReferer(_, _, _, _)
SealReferer(D, referer, deps, i) ==
  IF i > Len(deps) THEN D
  ELSE LET dep       == deps[i]
           depRoot   == DepRootOf(D.rootDir, dep)
           forRoot   == IF depRoot \in DOMAIN D.allDependencies
                        THEN D.allDependencies[depRoot] ELSE {}
           dependents == IF dep \in DOMAIN D.dependentsMap
                         THEN D.dependentsMap[dep] ELSE << >>
           D1 == [ D EXCEPT
                     !.allDependencies = MapSet(@, depRoot, forRoot \cup { RelativeTo(depRoot, dep) }),
                     !.dependentsMap   = MapSet(@, dep, Append(dependents, referer)) ]
       IN SealReferer(D1, referer, deps, i + 1)

\* seal()'s dependencyMap.forEach, from referer j on.
RECURSIVE SealFrom(_, _, _)
SealFrom(D, referers, j) ==
  IF j > Len(referers) THEN D
  ELSE SealFrom(SealReferer(D, referers[j], D.dependencyMap[referers[j]], 1),
                referers, j + 1)

Dependencies_seal(D) ==
  IF D.sealed THEN D
  ELSE SealFrom([ D EXCEPT !.sealed = TRUE ], SortedPaths(DOMAIN D.dependencyMap), 1)

\* unseal(): the inverse map dependentsMap is left as it is.
Dependencies_unseal(D) ==
  [ D EXCEPT !.sealed = FALSE, !.allDependencies = EmptyMap, !.fsTrees = EmptyMap ]

\* An entry of a dependency tree: a HashEntry (relativePath, hash) or an
\* Entry (relativePath, size, mtime, mode); mode is {} when undefined.
HashEntry(hash) ==
  [ type |-> "hash", hash |-> hash, size |-> 0, mtime |-> 0, mode |-> {} ]
StatEntry(size, mtime, mode) ==
  [ type |-> "stat", hash |-> {}, size |-> size, mtime |-> mtime, mode |-> mode ]

\* md5sum(readFileSync(path.join(fsRoot, dependency))), or '' when the file
\* cannot be read.  The digest of a content is modelled by the content itself.
HashEntryOf(fsRoot, rel) ==
  LET node == NodeAt(JoinRoot(fsRoot, rel))
  IN IF node.k = "file" THEN HashEntry({ node.c }) ELSE HashEntry({})

\* Entry.fromStat(statSync(fullPath)), or new Entry(dependency, 0, 0).
StatEntryOf(fsRoot, rel) ==
  LET node == NodeAt(JoinRoot(fsRoot, rel))
  IN IF node.k = "file"
     THEN StatEntry(SizeOf(node.c), node.m, { node.mode })
     ELSE StatEntry(0, 0, {})

\* Variant: a dependency that cannot be read gets no entry.
getHashTree_SkipMissing(fsRoot, deps) ==
  [ rel \in { r \in deps : NodeAt(JoinRoot(fsRoot, r)).k = "file" } |-> HashEntryOf(fsRoot, rel) ]

\* getHashTree / getStatTree (the directory entries sortAndExpand adds are
\* left out: no file declares a directory as its dependency)
getHashTree(fsRoot, deps) == [ rel \in deps |-> HashEntryOf(fsRoot, rel) ]
getStatTree(fsRoot, deps) == [ rel \in deps |-> StatEntryOf(fsRoot, rel) ]

\* Variant: every root gets a stat tree.
Dependencies_getDependencyState_Stat(D) ==
  [ fsRoot \in DOMAIN D.allDependencies |-> getStatTree(fsRoot, D.allDependencies[fsRoot]) ]

\* getDependencyState(): one tree per filesystem root (callers check sealed).
Dependencies_getDependencyState(D) ==
  [ fsRoot \in DOMAIN D.allDependencies |->
      IF fsRoot = D.rootDir THEN getHashTree(fsRoot, D.allDependencies[fsRoot])
                            ELSE getStatTree(fsRoot, D.allDependencies[fsRoot]) ]

Dependencies_captureDependencyState(D) ==
  [ D EXCEPT !.fsTrees = Dependencies_getDependencyState(D) ]

\* The comparison oldTree.calculatePatch makes of two entries of one path:
\* an FSHashTree compares the hashes, an FSTree size, mtime and mode.
TreeEntriesEqual(old, current) ==
  IF old.type = "hash"
  THEN old.hash = current.hash
  ELSE old.size = current.size /\ old.mtime = current.mtime /\ old.mode = current.mode

\* The paths oldTree.calculatePatch(currentTree) has an operation for.
PatchedPaths(oldTree, newTree) ==
  { q \in DOMAIN oldTree \cup DOMAIN newTree :
      \/ q \notin DOMAIN oldTree
      \/ q \notin DOMAIN newTree
      \/ ~ TreeEntriesEqual(oldTree[q], newTree[q]) }

\* Variant: no file is ever reported as invalidated.
Dependencies_getInvalidatedFiles_None(D) ==
  [ err |-> FALSE, files |-> << >>, deps |-> D ]

\* Variant: the state computed by the call is not adopted as the baseline.
Dependencies_getInvalidatedFiles_NoAdopt(D) ==
  IF \/ ~ D.sealed
     \/ \E fsRoot \in DOMAIN D.allDependencies : fsRoot \notin DOMAIN D.fsTrees
  THEN [ err |-> TRUE, files |-> << >>, deps |-> D ]
  ELSE LET currentState == Dependencies_getDependencyState(D)
           changed == UNION { { JoinRoot(fsRoot, q) :
                                  q \in PatchedPaths(D.fsTrees[fsRoot], currentState[fsRoot]) } :
                                fsRoot \in DOMAIN D.allDependencies }
           files == { f \in InPaths :
                        \E dep \in changed : /\ dep \in DOMAIN D.dependentsMap
                                             /\ f \in Range(D.dependentsMap[dep]) }
       IN [ err |-> FALSE, files |-> SortedPaths(files), deps |-> D ]

\* getInvalidatedFiles(): [err, files, deps].  err is TRUE when the call throws
\* (unsealed instance, or no baseline tree for a root).
Dependencies_getInvalidatedFiles(D) ==
  IF \/ ~ D.sealed
     \/ \E fsRoot \in DOMAIN D.allDependencies : fsRoot \notin DOMAIN D.fsTrees
  THEN [ err |-> TRUE, files |-> << >>, deps |-> D ]
  ELSE LET currentState == Dependencies_getDependencyState(D)
           changed == UNION { { JoinRoot(fsRoot, q) :
                                  q \in PatchedPaths(D.fsTrees[fsRoot], currentState[fsRoot]) } :
                                fsRoot \in DOMAIN D.allDependencies }
           files == { f \in InPaths :
                        \E dep \in changed : /\ dep \in DOMAIN D.dependentsMap
                                             /\ f \in Range(D.dependentsMap[dep]) }
       IN [ err |-> FALSE, files |-> SortedPaths(files),
            deps |-> [ D EXCEPT !.fsTrees = currentState ] ]

\* setDependencies(filePath, dependencies) past the sealed check (the
\* dependencies are absolute paths already, so they are kept as they are).
Dependencies_setDependencies(D, filePath, deps) ==
  [ D EXCEPT !.dependencyMap = MapSet(@, filePath, deps) ]

\* Variant: a sealed instance accepts the declaration.
setDependencies_Unchecked(D, filePath, deps) ==
  [ err |-> FALSE, deps |-> Dependencies_setDependencies(D, filePath, deps) ]

\* setDependencies(filePath, dependencies): [err, deps].  err is TRUE when
\* the call throws "Cannot set dependencies when sealed".
setDependencies(D, filePath, deps) ==
  IF D.sealed
  THEN [ err |-> TRUE, deps |-> D ]
  ELSE [ err |-> FALSE, deps |-> Dependencies_setDependencies(D, filePath, deps) ]

\* Variant: the files are dropped from the instance itself, which stays
\* sealed.
Dependencies_copyWithout_InPlace(D, files) ==
  [ D EXCEPT !.dependencyMap = MapWithout(D.dependencyMap, files) ]


\* Variant: the copy keeps the declarations of the given files too.
Dependencies_copyWithout_KeepAll(D, files) ==
  [ NewDependenciesAt(D.rootDir) EXCEPT !.dependencyMap = D.dependencyMap ]


\* copyWithout(files)
Dependencies_copyWithout(D, files) ==
  [ NewDependenciesAt(D.rootDir) EXCEPT !.dependencyMap = MapWithout(D.dependencyMap, files) ]

\* Dependencies.serialize(): an entry is written out by its type.
SerializeEntry(e) ==
  IF e.type = "hash"
  THEN [ type |-> "hash", hash |-> e.hash, size |-> 0, mtime |-> 0, mode |-> {} ]
  ELSE [ type |-> "stat", hash |-> {}, size |-> e.size, mtime |-> e.mtime, mode |-> e.mode ]

\* Variant: the captured trees are not written out.
Dependencies_serialize_NoTrees(D) ==
  [ rootDir |-> D.rootDir, dependencies |-> D.dependencyMap, fsTrees |-> EmptyMap ]

Dependencies_serialize(D) ==
  [ rootDir      |-> D.rootDir,
    dependencies |-> D.dependencyMap,
    fsTrees      |-> [ fsRoot \in DOMAIN D.fsTrees |->
                         [ q \in DOMAIN D.fsTrees[fsRoot] |->
                             SerializeEntry(D.fsTrees[fsRoot][q]) ] ] ]

\* deserialize(): a dependency below the old root is moved below the new one.
RebaseDep(dep, oldRootDir, newRootDir) ==
  IF dep.root = oldRootDir THEN [ root |-> newRootDir, rel |-> dep.rel ] ELSE dep

\* deserialize(): new Entry(...) or new HashEntry(...) by the type tag.
DeserializeEntry(e) ==
  IF e.type = "stat" THEN StatEntry(e.size, e.mtime, e.mode) ELSE HashEntry(e.hash)

\* Variant: the trees are keyed as they were stored.
Dependencies_deserialize_NoRekey(data, newRoot) ==
  LET oldRootDir == data.rootDir
      newRootDir == IF newRoot = {} THEN oldRootDir ELSE CHOOSE r \in newRoot : TRUE
      declared == [ f \in DOMAIN data.dependencies |->
                      [ i \in 1..Len(data.dependencies[f]) |->
                          RebaseDep(data.dependencies[f][i], oldRootDir, newRootDir) ] ]
      fsTrees == [ treeRoot \in DOMAIN data.fsTrees |->
                     [ q \in DOMAIN data.fsTrees[treeRoot] |->
                         DeserializeEntry(data.fsTrees[treeRoot][q]) ] ]
      D == Dependencies_seal([ NewDependenciesAt(newRootDir) EXCEPT !.dependencyMap = declared ])
  IN [ D EXCEPT !.fsTrees = fsTrees ]

\* Dependencies.deserialize(dependencyData, newRootDir)
Dependencies_deserialize(data, newRoot) ==
  LET oldRootDir == data.rootDir
      newRootDir == IF newRoot = {} THEN oldRootDir ELSE CHOOSE r \in newRoot : TRUE
      declared == [ f \in DOMAIN data.dependencies |->
                      [ i \in 1..Len(data.dependencies[f]) |->
                          RebaseDep(data.dependencies[f][i], oldRootDir, newRootDir) ] ]
      treeRootOf(fsRoot) == IF fsRoot = oldRootDir THEN newRootDir ELSE fsRoot
      fsTrees == [ treeRoot \in { treeRootOf(fsRoot) : fsRoot \in DOMAIN data.fsTrees } |->
                     LET fsRoot == CHOOSE r \in DOMAIN data.fsTrees : treeRootOf(r) = treeRoot
                     IN [ q \in DOMAIN data.fsTrees[fsRoot] |->
                            DeserializeEntry(data.fsTrees[fsRoot][q]) ] ]
      D == Dependencies_seal([ NewDependenciesAt(newRootDir) EXCEPT !.dependencyMap = declared ])
  IN [ D EXCEPT !.fsTrees = fsTrees ]

\* DefaultStrategy.initialDependencies: empty, sealed, state captured.
initialDependencies ==
  Dependencies_captureDependencyState(Dependencies_seal(NewDependencies))

\* The persistent strategy's initialDependencies: the instance the last
\* sealDependencies of a process stored in the persistent cache, read back
\* with Dependencies.deserialize; without one, as the default strategy.
PersistentInitialDependencies(stored) ==
  IF stored = {} THEN initialDependencies
  ELSE Dependencies_deserialize(CHOOSE d \in stored : TRUE, {})

\* The persistent strategy's sealDependencies: what it stores for the next
\* process, once the instance is sealed and its state captured.
PersistentStoredDependencies(sealedDeps) ==
  { Dependencies_serialize(D) : D \in sealedDeps }

\* Variant: the dependencies are sealed but their state is not captured.
sealDependencies_NoCapture(D) == Dependencies_seal(D)

\* DefaultStrategy.sealDependencies
sealDependencies(D) ==
  Dependencies_captureDependencyState(Dependencies_seal(D))

(***************************************************************************)
(* The output tree (this.output): each operation yields the new tree and   *)
(* whether the call threw.                                                 *)
(***************************************************************************)
FsResult(thrown, out) == [ thrown |-> thrown, out |-> out ]

ParentsPresent(out, q) == \A d \in ParentDirs(q) : out[d].k = "dir"
HasChildren(out, d) == \E q \in OutPaths : d \in ParentDirs(q) /\ out[q].k # "absent"

\* unlinkSync: ENOENT when nothing is there, EISDIR/EPERM on a directory
unlinkSync(out, q) ==
  IF out[q].k \in { "file", "link" }
  THEN FsResult(FALSE, [ out EXCEPT ![q] = OutAbsent ])
  ELSE FsResult(TRUE, out)

\* mkdirSync: EEXIST when the path exists, ENOENT without the parent
mkdirSync(out, q) ==
  IF out[q].k = "absent" /\ ParentsPresent(out, q)
  THEN FsResult(FALSE, [ out EXCEPT ![q] = OutDir ])
  ELSE FsResult(TRUE, out)

\* rmdirSync: ENOENT/ENOTDIR unless a directory, ENOTEMPTY with children
rmdirSync(out, q) ==
  IF out[q].k = "dir" /\ ~ HasChildren(out, q)
  THEN FsResult(FALSE, [ out EXCEPT ![q] = OutAbsent ])
  ELSE FsResult(TRUE, out)

\* symlinkOrCopySync(srcPath, outputPath): the source must exist, the
\* destination must not, and its directory must.
symlinkOrCopySync(out, p, q) ==
  IF input[p].k # "absent" /\ out[q].k = "absent" /\ ParentsPresent(out, q)
  THEN FsResult(FALSE, [ out EXCEPT ![q] = OutLink(p) ])
  ELSE FsResult(TRUE, out)

\* mkdirSync(path.dirname(outputPath), { recursive: true })
mkdirRecursive(out, q) ==
  [ x \in OutPaths |-> IF x \in ParentDirs(q) /\ out[x].k = "absent" THEN OutDir ELSE out[x] ]

\* The write at the end of processFile: writeFileSync, and on ENOENT the
\* creation of the parent directories and a second writeFileSync.
\* through is TRUE when the write goes through a symlink into the input tree.
WriteResult(thrown, out, through) == [ thrown |-> thrown, out |-> out, through |-> through ]

writeFileWithRetry(out, q, text, stamp) ==
  LET out1 == IF ParentsPresent(out, q) THEN out ELSE mkdirRecursive(out, q) IN
  IF ~ ParentsPresent(out1, q) \/ out1[q].k = "dir" THEN WriteResult(TRUE, out, FALSE)
  ELSE IF out1[q].k = "link" THEN WriteResult(FALSE, out1, TRUE)
  ELSE WriteResult(FALSE, [ out1 EXCEPT ![q] = OutFile(text, stamp) ], FALSE)

\* Variant: the reset block leaves the output tree as it is.
ClearedOutput_Kept == output

\* this.output.rmdirSync('./', {recursive: true}); this.output.mkdirSync('./', ...)
ClearedOutput == EmptyOutput

(***************************************************************************)
(* The transform of the model (the subclass's processString) and the       *)
(* default strategy around it.  With dependency invalidation enabled the   *)
(* subclass inlines the file its content refers to and declares it with    *)
(* setDependencies, as test/helpers/inliner.js does; otherwise it          *)
(* transforms the content alone.                                           *)
(***************************************************************************)
\* Reading a referenced file: its text version, or {} when it cannot be read.
ReadTarget(t) ==
  IF t.root = "in"
  THEN IF t.rel \in InPaths /\ input[t.rel].k = "file" THEN { input[t.rel].c.v } ELSE {}
  ELSE IF ext.k = "file" THEN { ext.c.v } ELSE {}

\* The deps array the transform passes to setDependencies.
DeclaredDeps(c) == IF c.ref = {} THEN << >> ELSE << CHOOSE t \in c.ref : TRUE >>

\* What the transform returns for content c (when it does not throw).
TransformText(c, depsEnabled) ==
  IF depsEnabled /\ c.ref # {}
  THEN [ v |-> c.v, inl |-> ReadTarget(CHOOSE t \in c.ref : TRUE), pp |-> 0 ]
  ELSE [ v |-> c.v, inl |-> {}, pp |-> 0 ]

\* Whether the synchronous part of the transform throws on content c: a
\* referenced file that cannot be read, or setDependencies on a sealed
\* instance.
TransformThrows(c, deps) ==
  /\ deps # {}
  /\ \/ (CHOOSE D \in deps : TRUE).sealed
     \/ c.ref # {} /\ ReadTarget(CHOOSE t \in c.ref : TRUE) = {}

(***************************************************************************)
(* The strategy around processString.  The persistent strategy looks the   *)
(* file up in the persistent cache under cacheKeyProcessString; on a hit   *)
(* that is not a forced invalidation the subclass's processString is not   *)
(* called; on a miss its normalised result is stored in the cache.  Either *)
(* way postProcess is applied to the result afterwards, and its return     *)
(* value is what processFile writes.  cfg.postProcess is "default" for the *)
(* base class's hook and "rewrite" for a subclass hook that rewrites       *)
(* result.output (a text counts its rewrites in pp).                       *)
(***************************************************************************)
\* processor.init(this) throws: with the persistent strategy it asks the
\* instance for its cache key, which calls baseDir().
InitThrows == cfg.persist /\ ~ cfg.baseDir

\* Variant: the key also depends on the instance that computes it.
cacheKeyProcessString_PerInstance(c, relativePath) == << c, relativePath, hist.instance >>

\* Filter.cacheKeyProcessString(string, relativePath)
cacheKeyProcessString(c, relativePath) == << c, relativePath >>

\* Filter.postProcess(result, relativePath), or the subclass's override
postProcess(result) ==
  IF cfg.postProcess = "rewrite" THEN [ result EXCEPT !.pp = @ + 1 ] ELSE result

\* The persistent strategy answers from the cache.
PersistentHit(t, c) ==
  /\ cfg.persist
  /\ ~ t.force
  /\ cacheKeyProcessString(c, t.path) \in DOMAIN cache.entries

\* Variant: the value stored is the one postProcess returned.
StoredValue_PostProcessed(normalizedValue) == postProcess(normalizedValue)

\* The value the persistent strategy stores on a miss.
StoredValue(normalizedValue) == normalizedValue

\* The persistent cache after processString has resolved with
\* normalizedValue for the file of task t (called: processString ran).
CacheAfter(t, normalizedValue, called) ==
  IF cfg.persist /\ called
  THEN [ cache EXCEPT !.entries =
           MapSet(@, cacheKeyProcessString(input[t.path].c, t.path),
                  StoredValue(normalizedValue)) ]
  ELSE cache

(***************************************************************************)
(* Filter._handleFile, in two parts: up to the point where processString   *)
(* has been called (HandleStart), and from its result on (HandleSettle).   *)
(* A task is [path, outputPath, force, isChange].                          *)
(***************************************************************************)
Task(p, q, force, isChange) ==
  [ path |-> p, outputPath |-> q, force |-> force, isChange |-> isChange ]

\* outcome: "thrown" (the operation failed), "done" (it completed: the file
\* was linked), "await" (processString was called and its result is awaited)
StartResult(outcome, out, links, deps, called, text) ==
  [ outcome |-> outcome, out |-> out, links |-> links, deps |-> deps,
    called |-> called, text |-> text ]

\* if (this._outputLinks[outputPath] === true) { delete ...; unlinkSync(outputPath) }
UnlinkFlagged(out, links, q) ==
  IF q \in links THEN unlinkSync(out, q) ELSE FsResult(FALSE, out)

\* Variant: every file is handed to processString, whatever its extension.
HandleStart_Ungated(t, out, links, deps) ==
  LET u      == UnlinkFlagged(out, links, t.outputPath)
      links1 == links \ { t.outputPath }
      c      == input[t.path].c
  IN IF u.thrown \/ input[t.path].k # "file"
     THEN StartResult("thrown", u.out, links1, deps, FALSE, NoText)
     ELSE IF TransformThrows(c, deps)
     THEN StartResult("thrown", u.out, links1, deps, TRUE, NoText)
     ELSE StartResult("await", u.out, links1,
            { Dependencies_setDependencies(D, t.path, DeclaredDeps(c)) : D \in deps },
            TRUE, TransformText(c, deps # {}))

\* With the persistent strategy a hit resolves with the cached value and
\* the subclass's processString is not called.
HandleStart(t, out, links, deps) ==
  IF canProcessFile(t.path)
  THEN LET u      == UnlinkFlagged(out, links, t.outputPath)
           links1 == links \ { t.outputPath }
           c      == input[t.path].c
       IN IF u.thrown \/ input[t.path].k # "file"
          THEN StartResult("thrown", u.out, links1, deps, FALSE, NoText)
          ELSE IF InitThrows  \* the strategy was never initialized: it has no cache
          THEN StartResult("thrown", u.out, links1, deps, FALSE, NoText)
          ELSE IF PersistentHit(t, c)
          THEN StartResult("await", u.out, links1, deps, FALSE,
                           cache.entries[cacheKeyProcessString(c, t.path)])
          ELSE IF TransformThrows(c, deps)
          THEN StartResult("thrown", u.out, links1, deps, TRUE, NoText)
          ELSE StartResult("await", u.out, links1,
                 { Dependencies_setDependencies(D, t.path, DeclaredDeps(c)) : D \in deps },
                 TRUE, TransformText(c, deps # {}))
  ELSE LET u == IF t.isChange THEN unlinkSync(out, t.outputPath) ELSE FsResult(FALSE, out)
           l == symlinkOrCopySync(u.out, t.path, t.outputPath)
       IN IF u.thrown \/ l.thrown
          THEN StartResult("thrown", l.out, links, deps, FALSE, NoText)
          ELSE StartResult("done", l.out, links \cup { t.outputPath }, deps, FALSE, NoText)

\* Variant: the operation resolves without writing its output.
HandleSettle_NoWrite(t, text, out, stamp) == WriteResult(FALSE, out, FALSE)

\* Variant: the output is written even when it equals the existing file.
HandleSettle_AlwaysWrite(t, text, out, stamp) ==
  IF getDestFilePath(t.path) = {} THEN WriteResult(TRUE, out, FALSE)
  ELSE LET q == CHOOSE d \in getDestFilePath(t.path) : TRUE IN
       IF t.isChange /\ out[q].k \notin { "file", "link" } THEN WriteResult(TRUE, out, FALSE)
       ELSE writeFileWithRetry(out, q, text, stamp)

\* processFile once processString has resolved with text: the comparison
\* with the existing output on a change, and the write.
HandleSettle(t, text, out, stamp) ==
  IF getDestFilePath(t.path) = {} THEN WriteResult(TRUE, out, FALSE)
  ELSE LET q == CHOOSE d \in getDestFilePath(t.path) : TRUE IN
       IF t.isChange /\ out[q].k \notin { "file", "link" } THEN WriteResult(TRUE, out, FALSE)
       ELSE IF t.isChange /\ out[q].k = "file" /\ out[q].text = text
       THEN WriteResult(FALSE, out, FALSE)
       ELSE writeFileWithRetry(out, q, text, stamp)

(***************************************************************************)
(* Construction.                                                           *)
(***************************************************************************)
ExtJs == << "j", "s" >>
ExtMd == << "m", "d" >>

\* The options objects explored.  Every extensions/targetExtension setting
\* is explored synchronously with dependency invalidation; the other
\* settings are explored on the configurations listed.
EngineOptions ==
  { o \in [ extensions             : { {}, { << ExtJs >> } },
            targetExtension        : { {}, { ExtMd } },
            async                  : BOOLEAN,
            dependencyInvalidation : BOOLEAN,
            concurrency            : { { 1 }, { 2 } },
            persist                : { {} } ] :
      /\ o.extensions = {} => o.targetExtension = {}
      /\ ~ o.async => o.concurrency = { 1 }
      /\ o.async => /\ o.extensions # {}
                    /\ o.dependencyInvalidation
                    /\ o.concurrency = { 1 } <=> o.targetExtension = {}
      /\ ~ o.dependencyInvalidation => o.extensions # {} /\ o.targetExtension = {} }

EngineEnvs == { [ JOBS |-> {}, cpus |-> 2, CI |-> {}, FORCE_PERSISTENCE_IN_CI |-> {} ] }

\* The truthiness of an environment variable ({} when unset) and of
\* options.persist ({} when not given).
EnvTruthy(x) == x # {} /\ x # { "" }
OptTruthy(x) == x = { TRUE }

\* Variant: the CI variable is not consulted.
shouldPersist_IgnoreCI(e, persist) == OptTruthy(persist)

\* Filter.shouldPersist(env, persist)
shouldPersist(e, persist) ==
  IF EnvTruthy(e.CI)
  THEN OptTruthy(persist) /\ EnvTruthy(e.FORCE_PERSISTENCE_IN_CI)
  ELSE OptTruthy(persist)

\* Filter.constructor
Construct(options, e) ==
  [ extensions             |-> options.extensions,
    targetExtension        |-> options.targetExtension,
    async                  |-> (options.async = TRUE),
    dependencyInvalidation |-> options.dependencyInvalidation,
    concurrency            |-> ResolveConcurrency(options.concurrency, e.JOBS, e.cpus),
    persist                |-> shouldPersist(e, options.persist),
    processorInitialized   |-> FALSE ]

\* The methods of a subclass: its postProcess ("default" when it keeps the
\* base class's, "rewrite" when it rewrites result.output) and whether it
\* implements baseDir.
DefaultMethods   == [ postProcess |-> "default", baseDir |-> TRUE ]
RewritingMethods == [ postProcess |-> "rewrite", baseDir |-> TRUE ]
AbstractBaseDir  == [ postProcess |-> "default", baseDir |-> FALSE ]

\* The instance of a subclass: the fields the constructor sets, and the
\* methods of the subclass.
Subclass(fields, methods) ==
  [ extensions             |-> fields.extensions,
    targetExtension        |-> fields.targetExtension,
    async                  |-> fields.async,
    dependencyInvalidation |-> fields.dependencyInvalidation,
    concurrency            |-> fields.concurrency,
    persist                |-> fields.persist,
    processorInitialized   |-> fields.processorInitialized,
    postProcess            |-> methods.postProcess,
    baseDir                |-> methods.baseDir ]

\* The input trees a new instance may be pointed at.
SeededInput ==
  [ p \in InPaths |->
      IF p = P_a_js THEN FileNode(RefContent(1, Local(P_d_b_js)), 0)
      ELSE IF p = P_a_md THEN FileNode(PlainContent(1), 0)
      ELSE IF p = P_d THEN DirNode
      ELSE FileNode(RefContent(1, ExtFile), 0) ]

InitialInputs == { EmptyInput, SeededInput }

\* No unit call has been made.
NoCall == [ op |-> "none" ]

InitHist ==
  [ everCollided     |-> FALSE,   \* two input files shared an output path in some build
    pendingEdits     |-> << >>,   \* edits since the last build started
    buildEdits       |-> << >>,   \* edits between the previous build and the last one
    prevResult       |-> "none",  \* lastResult when the last build started
    prevOutput       |-> EmptyOutput,  \* the output tree when the last build started
    prevDeps         |-> {},      \* this.dependencies when the last build started
    didReset         |-> FALSE,   \* the last build went through the reset block
    wroteThroughLink |-> FALSE,   \* a write went through a symlink into the input
    serialized       |-> {},      \* the Dependencies instance serialize() was last called on
    instance         |-> 1,       \* the number of the instance (1 for the first one built)
    primed           |-> FALSE,   \* the former instance built the present inputs, once, successfully
    prevCache        |-> EmptyCache,   \* the persistent cache when the last build started
    horizon          |-> MaxBuilds,    \* the number of builds explored from the initial state
    prevUnlinked     |-> EmptyMap ]    \* the files the build before the last removed, with their declarations

\* The state after new Subclass(inputTree, options); h is the history
\* record, in which nothing has happened yet.
InitInstanceWith(options, e, tree, methods, h) ==
  /\ env = [ optConcurrency |-> options.concurrency, JOBS |-> e.JOBS, cpus |-> e.cpus,
             persist |-> options.persist, CI |-> e.CI,
             FORCE_PERSISTENCE_IN_CI |-> e.FORCE_PERSISTENCE_IN_CI ]
  /\ cfg = Subclass(Construct(options, e), methods)
  /\ clock = 0
  /\ input = tree
  /\ ext = FileNode(PlainContent(1), 0)
  /\ output = EmptyOutput
  /\ currentTree = EmptyTree
  /\ dependencies = {}
  /\ needsReset = FALSE
  /\ outputLinks = {}
  /\ pc = "idle"
  /\ patches = << >>
  /\ patchIdx = 1
  /\ invalidated = << >>
  /\ pendingWork = << >>
  /\ inFlight = {}
  /\ firstError = {}
  /\ lastResult = "none"
  /\ psCalls = << >>
  /\ ppCalls = << >>
  /\ settled = {}
  /\ builds = 0
  /\ hist = h
  /\ call = NoCall
  /\ input2 = EmptyInput
  /\ cache = EmptyCache

InitInstance(options, e, tree, methods) ==
  InitInstanceWith(options, e, tree, methods, InitHist)

InitEngine(options, e, tree) == InitInstance(options, e, tree, DefaultMethods)

Init ==
  \E options \in EngineOptions, e \in EngineEnvs, tree \in InitialInputs :
    InitEngine(options, e, tree)

(***************************************************************************)
(* The environment: edits of the input tree and of the external file,      *)
(* made between builds.                                                    *)
(***************************************************************************)
FilePaths == { p \in InPaths : ~ IsDirectoryPath(p) }

Edit(kind, p, existed, changed) ==
  [ kind |-> kind, path |-> p, existed |-> existed, changed |-> changed ]

engineVars == << call, input2, cache, env, cfg, output, currentTree, dependencies, needsReset,
                 outputLinks, pc, patches, patchIdx, invalidated, pendingWork,
                 inFlight, firstError, lastResult, psCalls, ppCalls, settled,
                 builds >>

\* Edits happen between builds; those after the last build explored are
\* never seen by a build and are left out.
CanEdit == pc = "idle" /\ clock < MaxClock /\ builds < hist.horizon

\* Writing a file of the input tree (creating its directory when missing).
WriteInput(p, c) ==
  /\ CanEdit
  /\ clock' = clock + 1
  /\ input' = [ x \in InPaths |->
                  IF x = p THEN FileNode(c, clock + 1)
                  ELSE IF x \in ParentDirs(p) THEN DirNode
                  ELSE input[x] ]
  /\ hist' = [ hist EXCEPT !.pendingEdits =
                 Append(@, Edit("write", p, input[p].k = "file",
                                input[p].k = "file" /\ input[p].c # c)) ]
  /\ UNCHANGED << ext, engineVars >>

\* Removing a file, or a directory with everything below it.
RemoveInput(p) ==
  /\ CanEdit
  /\ input[p].k # "absent"
  /\ clock' = clock + 1
  /\ input' = [ x \in InPaths |->
                  IF x = p \/ p \in ParentDirs(x) THEN Absent ELSE input[x] ]
  /\ hist' = [ hist EXCEPT !.pendingEdits = Append(@, Edit("remove", p, TRUE, TRUE)) ]
  /\ UNCHANGED << ext, engineVars >>

\* Writing the file outside the input tree.
WriteExt(v) ==
  /\ CanEdit
  /\ clock' = clock + 1
  /\ ext' = FileNode(PlainContent(v), clock + 1)
  /\ hist' = [ hist EXCEPT !.pendingEdits =
                 Append(@, Edit("ext", ExtFile.rel, TRUE, ext.c.v # v)) ]
  /\ UNCHANGED << input, engineVars >>

(***************************************************************************)
(* Filter.build.                                                           *)
(***************************************************************************)
\* Two files of a tree share an output path.
Collides(tree) ==
  \E a, b \in TreePaths(tree) :
    /\ a # b /\ ~ isDirectory(a) /\ ~ isDirectory(b)
    /\ OutputPathOf(a) = OutputPathOf(b)

\* Variant: no file is handed to copyWithout.
UnlinkedFiles_None(ps) == {}

\* patches.filter(p => p[0] === 'unlink').map(p => p[1])
UnlinkedFiles(ps) == { ps[i].path : i \in { j \in 1..Len(ps) : ps[j].op = "unlink" } }

\* The declarations this.dependencies held when the build started; those
\* of the strategy's initial instance when the build created the instance
\* or went through the reset block.
DeclarationsBefore ==
  IF hist.didReset \/ hist.prevDeps = {}
  THEN IF cfg.persist
       THEN PersistentInitialDependencies(hist.prevCache.deps).dependencyMap
       ELSE initialDependencies.dependencyMap
  ELSE (CHOOSE P \in hist.prevDeps : TRUE).dependencyMap

\* The files the build that has just ended removed, if it succeeded, each
\* with what it declared before that build.
UnlinkedByLastBuild ==
  IF lastResult = "ok"
  THEN [ f \in { patches[i].path : i \in { j \in 1..Len(patches) : patches[j].op = "unlink" } } |->
           IF f \in DOMAIN DeclarationsBefore THEN DeclarationsBefore[f] ELSE << >> ]
  ELSE EmptyMap

\* build() up to the point where the patches are about to be applied: lazy
\* creation of the dependencies, the reset block, the walk, the derivation
\* of the patches, and the early return when there is nothing to do.
\* this.processor.initialDependencies(...)
StrategyInitialDependencies ==
  IF cfg.persist THEN PersistentInitialDependencies(cache.deps) ELSE initialDependencies

BuildPatches ==
  /\ LET deps0    == IF cfg.dependencyInvalidation /\ dependencies = {}
                     THEN { StrategyInitialDependencies } ELSE dependencies
         tree0    == IF needsReset THEN EmptyTree ELSE currentTree
         deps1    == IF needsReset /\ deps0 # {} THEN { StrategyInitialDependencies } ELSE deps0
         out0     == IF needsReset THEN ClearedOutput ELSE output
         nextTree == WalkInput
         inv      == IF deps1 # {}
                     THEN Dependencies_getInvalidatedFiles(CHOOSE D \in deps1 : TRUE)
                     ELSE [ err |-> FALSE, files |-> << >>, deps |-> NewDependencies ]
         deps2    == IF deps1 # {} THEN { inv.deps } ELSE {}
         ps       == addPatches(invalidationsAsPatches(inv.files, tree0, nextTree),
                                calculatePatch(tree0, nextTree))
         deps3    == IF deps2 # {} /\ Len(ps) > 0
                     THEN { Dependencies_copyWithout(D, UnlinkedFiles(ps)) : D \in deps2 }
                     ELSE deps2
     IN /\ output' = out0
        /\ builds' = builds + 1
        /\ psCalls' = << >>
        /\ ppCalls' = << >>
        /\ settled' = {}
        /\ firstError' = {}
        /\ pendingWork' = << >>
        /\ inFlight' = {}
        /\ patchIdx' = 1
        /\ hist' = [ hist EXCEPT !.pendingEdits = << >>,
                                 !.buildEdits   = hist.pendingEdits,
                                 !.prevResult   = lastResult,
                                 !.prevOutput   = output,
                                 !.prevDeps     = dependencies,
                                 !.prevCache    = cache,
                                 !.prevUnlinked = UnlinkedByLastBuild,
                                 !.didReset     = needsReset,
                                 !.everCollided = @ \/ Collides(nextTree) ]
        /\ IF inv.err
           THEN \* getInvalidatedFiles threw: the build rejects before any patch
                /\ currentTree' = tree0
                /\ dependencies' = deps1
                /\ invalidated' = << >>
                /\ patches' = << >>
                /\ pc' = "idle"
                /\ lastResult' = "failed"
                /\ UNCHANGED needsReset
           ELSE /\ currentTree' = nextTree
                /\ dependencies' = deps3
                /\ invalidated' = inv.files
                /\ patches' = ps
                /\ IF Len(ps) = 0
                   THEN \* no work, exit early
                        /\ pc' = "idle"
                        /\ lastResult' = "early"
                        /\ UNCHANGED needsReset
                   ELSE /\ pc' = "patching"
                        /\ needsReset' = TRUE
                        /\ UNCHANGED lastResult

\* build() rejects in processor.init, before anything else is touched.
BuildRejectedByInit ==
  /\ builds' = builds + 1
  /\ lastResult' = "unimplemented"
  /\ psCalls' = << >>
  /\ ppCalls' = << >>
  /\ settled' = {}
  /\ hist' = [ hist EXCEPT !.pendingEdits = << >>,
                           !.buildEdits   = hist.pendingEdits,
                           !.prevResult   = lastResult,
                           !.prevOutput   = output,
                           !.prevDeps     = dependencies,
                           !.prevCache    = cache,
                           !.prevUnlinked = UnlinkedByLastBuild,
                           !.didReset     = FALSE ]
  /\ UNCHANGED << output, currentTree, dependencies, needsReset, pc, patches, patchIdx,
                  invalidated, pendingWork, inFlight, firstError >>

\* build(): the processor is marked initialized and, the first time,
\* initialized; then the patches are derived.
BuildStart ==
  /\ pc = "idle"
  /\ builds < hist.horizon
  /\ cfg' = [ cfg EXCEPT !.processorInitialized = TRUE ]
  /\ IF ~ cfg.processorInitialized /\ InitThrows THEN BuildRejectedByInit ELSE BuildPatches
  /\ UNCHANGED << call, input2, cache, env, clock, input, ext, outputLinks >>

\* The patch mapSeries is about to dispatch.
CurrentPatch == patches[patchIdx]

\* mapSeries moves on to the next patch; after the last one the queue runs.
AdvancePatch ==
  /\ patchIdx' = patchIdx + 1
  /\ pc' = IF patchIdx = Len(patches) THEN "queue" ELSE "patching"
  /\ UNCHANGED lastResult

\* The build rejects (this._needsReset stays true).
RejectBuild ==
  /\ pc' = "idle"
  /\ lastResult' = "failed"
  /\ UNCHANGED patchIdx

\* case 'mkdir' / 'rmdir' / 'unlink' of the patch loop.
ApplyDirOrUnlinkPatch ==
  /\ pc = "patching"
  /\ CurrentPatch.op \in { "mkdir", "rmdir", "unlink" }
  /\ LET q == OutputPathOf(CurrentPatch.path)
         r == IF CurrentPatch.op = "mkdir" THEN mkdirSync(output, q)
              ELSE IF CurrentPatch.op = "rmdir" THEN rmdirSync(output, q)
              ELSE unlinkSync(output, q)
     IN /\ output' = r.out
        /\ IF r.thrown THEN RejectBuild ELSE AdvancePatch
  /\ UNCHANGED << call, input2, cache, env, cfg, clock, input, ext, currentTree, dependencies, needsReset,
                  outputLinks, patches, invalidated, pendingWork, inFlight,
                  firstError, psCalls, ppCalls, settled, builds, hist >>

\* Variant: no file is passed with forceInvalidation.
TaskOf_NeverForced(patch) ==
  Task(patch.path, OutputPathOf(patch.path), FALSE, patch.op = "change")

\* The task the patch loop builds for a 'create' or 'change' patch.
TaskOf(patch) ==
  Task(patch.path, OutputPathOf(patch.path),
       patch.path \in Range(invalidated), patch.op = "change")

\* case 'change' / 'create' with async = false: the operation runs and is
\* awaited before the next patch.  ok chooses whether processString
\* resolves or rejects.
ApplyFilePatchSync(ok) ==
  /\ pc = "patching"
  /\ ~ cfg.async
  /\ CurrentPatch.op \in { "create", "change" }
  /\ LET t == TaskOf(CurrentPatch)
         r == HandleStart(t, output, outputLinks, dependencies)
         w == HandleSettle(t, postProcess(r.text), r.out, builds)
     IN /\ (r.outcome # "await" \/ ~ r.called) => ok
        /\ cache' = IF r.outcome = "await" /\ ok
                    THEN CacheAfter(t, r.text, r.called) ELSE cache
        /\ outputLinks' = r.links
        /\ dependencies' = r.deps
        /\ psCalls' = IF r.called THEN Append(psCalls, t.path) ELSE psCalls
        /\ IF r.outcome = "await" /\ ok
           THEN /\ ppCalls' = Append(ppCalls, t.path)
                /\ output' = w.out
                /\ hist' = [ hist EXCEPT !.wroteThroughLink = @ \/ w.through ]
                /\ IF w.thrown THEN RejectBuild ELSE AdvancePatch
           ELSE /\ output' = r.out
                /\ UNCHANGED << ppCalls, hist >>
                /\ IF r.outcome = "done" THEN AdvancePatch ELSE RejectBuild
  /\ UNCHANGED << call, input2, env, cfg, clock, input, ext, currentTree, needsReset, patches,
                  invalidated, pendingWork, inFlight, firstError, settled, builds >>

\* case 'change' / 'create' with async = true: the operation is pushed on
\* pendingWork and does not run yet.
EnqueueFilePatch ==
  /\ pc = "patching"
  /\ cfg.async
  /\ CurrentPatch.op \in { "create", "change" }
  /\ pendingWork' = Append(pendingWork, TaskOf(CurrentPatch))
  /\ AdvancePatch
  /\ UNCHANGED << call, input2, cache, env, cfg, clock, input, ext, output, currentTree, dependencies,
                  needsReset, outputLinks, patches, invalidated, inFlight,
                  firstError, psCalls, ppCalls, settled, builds, hist >>

(***************************************************************************)
(* queue(worker, pendingWork, this.concurrency): the worker pool.  It      *)
(* starts operations in list order while fewer than `concurrency` are in   *)
(* flight, keeps draining after a failure, and settles when nothing is     *)
(* queued or in flight, rejecting with the first failure.                  *)
(***************************************************************************)
\* Variant: the pool is handed one worker more than this.concurrency.
WorkerLimit_PlusOne == cfg.concurrency + 1

\* The third argument of queue(worker, pendingWork, this.concurrency).
WorkerLimit == cfg.concurrency

CanStartTask == pendingWork # << >> /\ Cardinality(inFlight) < WorkerLimit

\* Variant: the pool starts operations while the patch list is still walked.
TaskStart_Eager ==
  /\ pc \in { "patching", "queue" }
  /\ CanStartTask
  /\ LET t == Head(pendingWork)
         r == HandleStart(t, output, outputLinks, dependencies)
     IN /\ pendingWork' = Tail(pendingWork)
        /\ inFlight' = inFlight \cup { [ task |-> t, outcome |-> r.outcome, text |-> r.text,
                                          called |-> r.called ] }
        /\ output' = r.out
        /\ outputLinks' = r.links
        /\ dependencies' = r.deps
        /\ psCalls' = IF r.called THEN Append(psCalls, t.path) ELSE psCalls
  /\ UNCHANGED << call, input2, cache, env, cfg, clock, input, ext, currentTree, needsReset, pc, patches,
                  patchIdx, invalidated, firstError, lastResult, ppCalls, settled,
                  builds, hist >>

\* The pool starts the next operation.
TaskStart ==
  /\ pc = "queue"
  /\ CanStartTask
  /\ LET t == Head(pendingWork)
         r == HandleStart(t, output, outputLinks, dependencies)
     IN /\ pendingWork' = Tail(pendingWork)
        /\ inFlight' = inFlight \cup { [ task |-> t, outcome |-> r.outcome, text |-> r.text,
                                          called |-> r.called ] }
        /\ output' = r.out
        /\ outputLinks' = r.links
        /\ dependencies' = r.deps
        /\ psCalls' = IF r.called THEN Append(psCalls, t.path) ELSE psCalls
  /\ UNCHANGED << call, input2, cache, env, cfg, clock, input, ext, currentTree, needsReset, pc, patches,
                  patchIdx, invalidated, firstError, lastResult, ppCalls, settled,
                  builds, hist >>

\* An operation in flight settles.  ok chooses whether processString
\* resolves or rejects.
TaskSettle(f, ok) ==
  /\ pc = "queue"
  /\ f \in inFlight
  /\ ~ CanStartTask
  /\ (f.outcome # "await" \/ ~ f.called) => ok
  /\ LET t == f.task
         w == HandleSettle(t, postProcess(f.text), output, builds)
         resolved == f.outcome = "await" /\ ok
         failed == \/ f.outcome = "thrown"
                   \/ f.outcome = "await" /\ ~ ok
                   \/ resolved /\ w.thrown
     IN /\ inFlight' = inFlight \ { f }
        /\ output' = IF resolved THEN w.out ELSE output
        /\ ppCalls' = IF resolved THEN Append(ppCalls, t.path) ELSE ppCalls
        /\ cache' = IF resolved THEN CacheAfter(t, f.text, f.called) ELSE cache
        /\ hist' = [ hist EXCEPT !.wroteThroughLink = @ \/ (resolved /\ w.through) ]
        /\ settled' = settled \cup { [ path |-> t.path, ok |-> ~ failed ] }
        /\ firstError' = IF failed /\ firstError = {} THEN { t.path } ELSE firstError
  /\ UNCHANGED << call, input2, env, cfg, clock, input, ext, currentTree, dependencies, needsReset,
                  outputLinks, pc, patches, patchIdx, invalidated, pendingWork,
                  lastResult, psCalls, builds >>

\* The queue has settled: on success the dependencies are sealed, their
\* state is captured and _needsReset is cleared; otherwise build() rejects.
BuildFinish ==
  /\ pc = "queue"
  /\ pendingWork = << >>
  /\ inFlight = {}
  /\ pc' = "idle"
  /\ IF firstError = {}
     THEN /\ dependencies' = { sealDependencies(D) : D \in dependencies }
          /\ cache' = IF cfg.persist /\ dependencies # {}
                      THEN [ cache EXCEPT !.deps =
                               PersistentStoredDependencies(
                                 { sealDependencies(D) : D \in dependencies }) ]
                      ELSE cache
          /\ needsReset' = FALSE
          /\ lastResult' = "ok"
     ELSE /\ lastResult' = "failed"
          /\ UNCHANGED << cache, dependencies, needsReset >>
  /\ UNCHANGED << call, input2, env, cfg, clock, input, ext, output, currentTree, outputLinks,
                  patches, patchIdx, invalidated, pendingWork, inFlight, firstError,
                  psCalls, ppCalls, settled, builds, hist >>

Next ==
  \/ \E p \in FilePaths : \E c \in ContentsFor(p) : WriteInput(p, c)
  \/ \E p \in InPaths : RemoveInput(p)
  \/ \E v \in Versions : WriteExt(v)
  \/ BuildStart
  \/ ApplyDirOrUnlinkPatch
  \/ \E ok \in BOOLEAN : ApplyFilePatchSync(ok)
  \/ EnqueueFilePatch
  \/ TaskStart
  \/ \E f \in inFlight, ok \in BOOLEAN : TaskSettle(f, ok)
  \/ BuildFinish

Spec == Init /\ [][Next]_vars

(***************************************************************************)
(* Construction on its own: the options, the JOBS variable and the number  *)
(* of cpus are drawn, and the constructor resolves this.concurrency.       *)
(***************************************************************************)
MaxN == 3

\* The least number drawn for options.concurrency and env JOBS.
MinN == -1

\* options.concurrency: not given, or a number
CtorConcurrencies == { {} } \cup { { n } : n \in MinN..MaxN }

\* process.env.JOBS: unset, a numeric string, or a string that is no number
CtorJobs ==
  { {} } \cup { { [ numeric |-> TRUE, n |-> n ] } : n \in MinN..MaxN }
         \cup { { [ numeric |-> FALSE, n |-> 0 ] } }

\* require('os').cpus().length
CtorCpus == 0..MaxN

\* options.persist: not given, or a boolean
CtorPersist == { {}, { TRUE }, { FALSE } }

\* process.env.CI and process.env.FORCE_PERSISTENCE_IN_CI: unset, the empty
\* string, or a non-empty string
CtorEnvStrings == { {}, { "" }, { "true" } }

CtorOptions(optConcurrency, persist) ==
  [ extensions |-> { << ExtJs >> }, targetExtension |-> {}, async |-> TRUE,
    dependencyInvalidation |-> TRUE, concurrency |-> optConcurrency,
    persist |-> persist ]

\* The fields of an instance that is not constructed yet.
NoCfg ==
  [ extensions |-> {}, targetExtension |-> {}, async |-> FALSE,
    dependencyInvalidation |-> FALSE, concurrency |-> 0, persist |-> FALSE ]

InitCtor ==
  \E optConcurrency \in CtorConcurrencies, jobs \in CtorJobs, cpus \in CtorCpus,
     persist \in CtorPersist, ci \in CtorEnvStrings, force \in CtorEnvStrings :
    /\ env = [ optConcurrency |-> optConcurrency, JOBS |-> jobs, cpus |-> cpus,
               persist |-> persist, CI |-> ci, FORCE_PERSISTENCE_IN_CI |-> force ]
    /\ cfg = NoCfg
    /\ clock = 0
    /\ input = EmptyInput
    /\ ext = FileNode(PlainContent(1), 0)
    /\ output = EmptyOutput
    /\ currentTree = EmptyTree
    /\ dependencies = {}
    /\ needsReset = FALSE
    /\ outputLinks = {}
    /\ pc = "new"
    /\ patches = << >>
    /\ patchIdx = 1
    /\ invalidated = << >>
    /\ pendingWork = << >>
    /\ inFlight = {}
    /\ firstError = {}
    /\ lastResult = "none"
    /\ psCalls = << >>
    /\ ppCalls = << >>
    /\ settled = {}
    /\ builds = 0
    /\ hist = InitHist
    /\ call = NoCall
    /\ input2 = EmptyInput
    /\ cache = EmptyCache

\* new Filter(inputTree, options)
ConstructFilter ==
  /\ pc = "new"
  /\ cfg' = Construct(CtorOptions(env.optConcurrency, env.persist), env)
  /\ pc' = "idle"
  /\ UNCHANGED << call, input2, cache, env, clock, input, ext, output, currentTree, dependencies,
                  needsReset, outputLinks, patches, patchIdx, invalidated,
                  pendingWork, inFlight, firstError, lastResult, psCalls,
                  ppCalls, settled, builds, hist >>

NextCtor == ConstructFilter

SpecCtor == InitCtor /\ [][NextCtor]_vars

(***************************************************************************)
(* Units taken on their own.  The engine is left as constructed and the    *)
(* call on the unit, with its arguments and result, is recorded in `call`. *)
(***************************************************************************)
\* The engine variables a unit specification does not use.
QuietEngine ==
  /\ env = [ optConcurrency |-> {}, JOBS |-> {}, cpus |-> 2,
             persist |-> {}, CI |-> {}, FORCE_PERSISTENCE_IN_CI |-> {} ]
  /\ cfg = NoCfg
  /\ output = EmptyOutput
  /\ currentTree = EmptyTree
  /\ needsReset = FALSE
  /\ outputLinks = {}
  /\ pc = "unit"
  /\ patches = << >>
  /\ patchIdx = 1
  /\ invalidated = << >>
  /\ pendingWork = << >>
  /\ inFlight = {}
  /\ firstError = {}
  /\ lastResult = "none"
  /\ psCalls = << >>
  /\ ppCalls = << >>
  /\ settled = {}
  /\ builds = 0
  /\ hist = InitHist

quietVars == << env, cfg, output, currentTree, needsReset, outputLinks, pc,
                patches, patchIdx, invalidated, pendingWork, inFlight,
                firstError, lastResult, psCalls, ppCalls, settled, builds >>

(***************************************************************************)
(* getDestFilePath on its own: the arguments are drawn and the function is *)
(* applied.                                                                *)
(***************************************************************************)
MaxExtensions == 2

\* Extensions, the empty string included.
DestExts == { << >>, << "j", "s" >>, << "m", "d" >>, << "m", "d", ".", "j", "s" >> }

\* options.extensions: null, or a list of at most MaxExtensions extensions
DestExtensionLists ==
  { {} } \cup { { l } : l \in UNION { [ 1..n -> DestExts ] : n \in 0..MaxExtensions } }

\* options.targetExtension: null, or a string
DestTargets == { {}, { << >> }, { << "m", "d" >> } }

\* relative paths: files with and without extension, a dot file, a
\* trailing dot, a name that is an extension, and a directory
DestPaths ==
  { << "a", ".", "j", "s" >>, << "a", ".", "m", "d" >>, << "a", "j", "s" >>,
    << ".", "j", "s" >>, << "j", "s" >>, << "a", "." >>, << "a" >>,
    << "a", ".", "m", "d", ".", "j", "s" >>, << "d", ".", "j", "s", "/" >> }

DestCall(isDir, extensions, targetExtension, relativePath, done, result) ==
  [ op |-> "getDestFilePath", isDir |-> isDir, extensions |-> extensions,
    targetExtension |-> targetExtension, relativePath |-> relativePath,
    done |-> done, result |-> result ]

InitDest ==
  /\ QuietEngine
  /\ clock = 0
  /\ input = EmptyInput
  /\ ext = FileNode(PlainContent(1), 0)
  /\ dependencies = {}
  /\ input2 = EmptyInput
  /\ cache = EmptyCache
  /\ \E isDir \in BOOLEAN, extensions \in DestExtensionLists,
        targetExtension \in DestTargets, relativePath \in DestPaths :
       /\ isDirectory(relativePath) => isDir
       /\ call = DestCall(isDir, extensions, targetExtension, relativePath, FALSE, {})

\* this.getDestFilePath(relativePath, entry)
CallGetDestFilePath ==
  /\ call.op = "getDestFilePath" /\ ~ call.done
  /\ call' = [ call EXCEPT
                 !.done = TRUE,
                 !.result = getDestFilePathFor(call.isDir, call.extensions,
                                               call.targetExtension, call.relativePath) ]
  /\ UNCHANGED << quietVars, hist, clock, input, ext, dependencies, input2, cache >>

NextDest == CallGetDestFilePath

SpecDest == InitDest /\ [][NextDest]_vars

(***************************************************************************)
(* Filter.cacheKeyProcessString on its own, on strings: the key of a file  *)
(* is md5Hex(string + 0x00 + relativePath).  0x00 is a number literal, so  *)
(* string + 0x00 appends the digit "0".  Two (contents, path) pairs are    *)
(* drawn and the string handed to md5Hex is computed for each.  (The       *)
(* engine above keeps file contents abstract and takes the pair itself for *)
(* the key.)                                                               *)
(***************************************************************************)
MaxKeyLen == 2

KeyChars == { "a", "0" }

\* File contents, and relative paths (not empty).
KeyStrings == UNION { [ 1..n -> KeyChars ] : n \in 0..MaxKeyLen }
KeyPaths   == KeyStrings \ { << >> }

\* string + 0x00 + relativePath
cacheKeyString(string, relativePath) == string \o << "0" >> \o relativePath

InitKey ==
  /\ QuietEngine
  /\ hist = InitHist
  /\ clock = 0
  /\ input = EmptyInput
  /\ ext = FileNode(PlainContent(1), 0)
  /\ dependencies = {}
  /\ input2 = EmptyInput
  /\ cache = EmptyCache
  /\ \E s1, s2 \in KeyStrings, p1, p2 \in KeyPaths :
       call = [ op |-> "cacheKeyProcessString", done |-> FALSE,
                first  |-> [ string |-> s1, relativePath |-> p1 ],
                second |-> [ string |-> s2, relativePath |-> p2 ],
                hashed |-> << >> ]

\* this.cacheKeyProcessString(string, relativePath), for each of the pairs
CallCacheKeyProcessString ==
  /\ call.op = "cacheKeyProcessString" /\ ~ call.done
  /\ call' = [ call EXCEPT
                 !.done = TRUE,
                 !.hashed = << cacheKeyString(call.first.string, call.first.relativePath),
                               cacheKeyString(call.second.string, call.second.relativePath) >> ]
  /\ UNCHANGED << quietVars, hist, clock, input, ext, dependencies, input2, cache >>

NextKey == CallCacheKeyProcessString

SpecKey == InitKey /\ [][NextKey]_vars

(***************************************************************************)
(* Dependencies on its own: an instance rooted at the input directory, the *)
(* calls of its interface in any order, and edits of the files it tracks.  *)
(***************************************************************************)
\* The edits of tracked files a behaviour holds, and the length a list of
\* dependentsMap may have when the instance is unsealed once more.
MaxEdits == 1
MaxDependents == 1

\* The files that declare dependencies.
DepFiles == { P_a_js, P_a_md }

\* The files depended on: one under the input directory, the file at the
\* same relative path under the second input directory, and one elsewhere.
LocalDep  == Local(P_d_b_js)
SecondDep == [ root |-> "in2", rel |-> P_d_b_js ]

\* The lists setDependencies is called with.
DepLists == { << >>, << LocalDep >>, << ExtFile >> }

\* The declarations made before the first call the model follows.
InitialDeclarations ==
  { EmptyMap,
    MapSet(EmptyMap, P_a_js, << LocalDep >>),
    MapSet(MapSet(EmptyMap, P_a_js, << LocalDep >>), P_a_md, << LocalDep >>),
    MapSet(MapSet(EmptyMap, P_a_js, << LocalDep >>), P_a_md, << ExtFile >>),
    MapSet(EmptyMap, P_a_js, << LocalDep, ExtFile >>) }

\* The same, and declarations of the file under the second input directory.
StoredDeclarations ==
  InitialDeclarations \cup
  { MapSet(EmptyMap, P_a_js, << LocalDep, SecondDep >>),
    MapSet(MapSet(EmptyMap, P_a_js, << LocalDep >>), P_a_md, << SecondDep >>),
    MapSet(EmptyMap, P_a_js, << SecondDep >>) }

\* A tree holding d/b.js with the given node.
TreeWith(node) ==
  [ p \in InPaths |-> IF p = P_d_b_js THEN node
                      ELSE IF p = P_d /\ node.k = "file" THEN DirNode
                      ELSE Absent ]

\* A call on the instance: the operation, the operation before it and the
\* list that one returned, whether the call threw, the list it returned,
\* its arguments (a file and a list, a root directory) and the instance
\* before the call.
DepsCall(op, err, files, arg, before) ==
  [ op |-> op, prev |-> call.op, prevFiles |-> call.files, err |-> err,
    files |-> files, arg |-> arg, before |-> before ]

TheDeps == CHOOSE D \in dependencies : TRUE

InitDeps ==
  /\ QuietEngine
  /\ hist = InitHist
  /\ clock = 0
  /\ input = TreeWith(FileNode(PlainContent(1), 0))
  /\ input2 = EmptyInput
  /\ ext = FileNode(PlainContent(1), 0)
  /\ cache = EmptyCache
  /\ \E m \in InitialDeclarations :
       dependencies = { [ NewDependenciesAt("in") EXCEPT !.dependencyMap = m ] }
  /\ call = [ op |-> "new", prev |-> "none", prevFiles |-> << >>, err |-> FALSE,
              files |-> << >>, arg |-> {}, before |-> {} ]

depsFrame == << quietVars, clock, input, input2, ext, cache >>

\* A state of the tracked files has been taken as the baseline: the edits
\* made since the baseline before it are the ones the call covered.
BaselineTaken == [ hist EXCEPT !.pendingEdits = << >>, !.buildEdits = hist.pendingEdits ]

\* dependencies.setDependencies(filePath, deps)
DepsSetDependencies(f, deps) ==
  /\ LET r == setDependencies(TheDeps, f, deps) IN
       /\ dependencies' = { r.deps }
       /\ call' = DepsCall("setDependencies", r.err, << >>, { << f, deps >> }, { TheDeps })
  /\ UNCHANGED << hist, depsFrame >>

\* dependencies.seal()
DepsSeal ==
  /\ dependencies' = { Dependencies_seal(TheDeps) }
  /\ call' = DepsCall("seal", FALSE, << >>, {}, {})
  /\ UNCHANGED << hist, depsFrame >>

\* dependencies.unseal()
DepsUnseal ==
  /\ \A dep \in DOMAIN TheDeps.dependentsMap :
       Len(TheDeps.dependentsMap[dep]) <= MaxDependents
  /\ dependencies' = { Dependencies_unseal(TheDeps) }
  /\ call' = DepsCall("unseal", FALSE, << >>, {}, {})
  /\ UNCHANGED << hist, depsFrame >>

\* dependencies.captureDependencyState(): getDependencyState throws on an
\* unsealed instance.
DepsCapture ==
  /\ dependencies' = IF TheDeps.sealed
                     THEN { Dependencies_captureDependencyState(TheDeps) }
                     ELSE dependencies
  /\ call' = DepsCall("captureDependencyState", ~ TheDeps.sealed, << >>, {}, {})
  /\ hist' = IF TheDeps.sealed THEN BaselineTaken ELSE hist
  /\ UNCHANGED depsFrame

\* dependencies.getInvalidatedFiles()
DepsGetInvalidatedFiles ==
  /\ LET r == Dependencies_getInvalidatedFiles(TheDeps) IN
       /\ dependencies' = { r.deps }
       /\ call' = DepsCall("getInvalidatedFiles", r.err, r.files, {}, { TheDeps })
       /\ hist' = IF r.err THEN hist ELSE BaselineTaken
  /\ UNCHANGED depsFrame

\* dependencies.serialize(), the result stored
DepsSerialize ==
  /\ cache' = [ cache EXCEPT !.deps = { Dependencies_serialize(TheDeps) } ]
  /\ hist' = [ hist EXCEPT !.serialized = { TheDeps } ]
  /\ call' = DepsCall("serialize", FALSE, << >>, {}, {})
  /\ UNCHANGED << quietVars, clock, input, input2, ext, dependencies >>

\* Dependencies.deserialize(stored, newRootDir): the instance read back
\* takes the place of the one in use.
DepsDeserialize(newRoot) ==
  /\ cache.deps # {}
  /\ dependencies' = { Dependencies_deserialize(CHOOSE d \in cache.deps : TRUE, newRoot) }
  /\ call' = DepsCall("deserialize", FALSE, << >>, newRoot, {})
  /\ UNCHANGED << hist, depsFrame >>

\* An edit of a tracked file: the call record notes that an edit was last.
Edited == [ call EXCEPT !.prev = call.op, !.prevFiles = call.files, !.op = "edit",
                        !.files = << >> ]

\* d/b.js is written (with the same content: touched).
DepsWriteLocal(v) ==
  /\ clock < MaxEdits
  /\ clock' = clock + 1
  /\ input' = TreeWith(FileNode(PlainContent(v), clock + 1))
  /\ call' = Edited
  /\ hist' = [ hist EXCEPT !.pendingEdits =
                 Append(@, Edit("write", P_d_b_js, input[P_d_b_js].k = "file",
                                input[P_d_b_js] # FileNode(PlainContent(v), input[P_d_b_js].m))) ]
  /\ UNCHANGED << quietVars, input2, ext, cache, dependencies >>

\* d/b.js is removed.
DepsRemoveLocal ==
  /\ clock < MaxEdits
  /\ input[P_d_b_js].k = "file"
  /\ clock' = clock + 1
  /\ input' = TreeWith(Absent)
  /\ call' = Edited
  /\ hist' = [ hist EXCEPT !.pendingEdits = Append(@, Edit("remove", P_d_b_js, TRUE, TRUE)) ]
  /\ UNCHANGED << quietVars, input2, ext, cache, dependencies >>

\* The file outside the input directory is written (or touched).
DepsWriteExt(v) ==
  /\ clock < MaxEdits
  /\ clock' = clock + 1
  /\ ext' = [ FileNode(PlainContent(v), clock + 1) EXCEPT !.mode = ext.mode ]
  /\ call' = Edited
  /\ hist' = [ hist EXCEPT !.pendingEdits =
                 Append(@, Edit("ext", ExtFile.rel, ext.k = "file", ext.c.v # v)) ]
  /\ UNCHANGED << quietVars, input, input2, cache, dependencies >>

\* chmod of the file outside the input directory: the mtime stays.
DepsChmodExt ==
  /\ clock < MaxEdits
  /\ clock' = clock + 1
  /\ ext' = [ ext EXCEPT !.mode = 1 - @ ]
  /\ call' = Edited
  /\ hist' = [ hist EXCEPT !.pendingEdits = Append(@, Edit("chmod", ExtFile.rel, TRUE, FALSE)) ]
  /\ UNCHANGED << quietVars, input, input2, cache, dependencies >>

NextDeps ==
  \/ \E f \in DepFiles, deps \in DepLists : DepsSetDependencies(f, deps)
  \/ DepsSeal
  \/ DepsUnseal
  \/ DepsCapture
  \/ DepsGetInvalidatedFiles
  \/ \E v \in Versions : DepsWriteLocal(v)
  \/ DepsRemoveLocal
  \/ \E v \in Versions : DepsWriteExt(v)
  \/ DepsChmodExt

SpecDeps == InitDeps /\ [][NextDeps]_vars

(***************************************************************************)
(* Dependencies on files that are missing: the instance is followed from   *)
(* states in which a declared dependency may not exist, and the file       *)
(* outside the input directory may be removed.                             *)
(***************************************************************************)
InitMissing ==
  /\ QuietEngine
  /\ hist = InitHist
  /\ clock = 0
  /\ input \in { TreeWith(FileNode(PlainContent(1), 0)), TreeWith(Absent) }
  /\ input2 = EmptyInput
  /\ ext \in { FileNode(PlainContent(1), 0), Absent }
  /\ cache = EmptyCache
  /\ \E m \in InitialDeclarations :
       dependencies = { [ NewDependenciesAt("in") EXCEPT !.dependencyMap = m ] }
  /\ call = [ op |-> "new", prev |-> "none", prevFiles |-> << >>, err |-> FALSE,
              files |-> << >>, arg |-> {}, before |-> {} ]

\* The file outside the input directory is removed.
DepsRemoveExt ==
  /\ clock < MaxEdits
  /\ ext.k = "file"
  /\ clock' = clock + 1
  /\ ext' = Absent
  /\ call' = Edited
  /\ hist' = [ hist EXCEPT !.pendingEdits = Append(@, Edit("remove", ExtFile.rel, TRUE, TRUE)) ]
  /\ UNCHANGED << quietVars, input, input2, cache, dependencies >>

NextMissing ==
  \/ \E f \in DepFiles, deps \in DepLists : DepsSetDependencies(f, deps)
  \/ DepsSeal
  \/ DepsCapture
  \/ DepsGetInvalidatedFiles
  \/ \E v \in Versions : DepsWriteLocal(v)
  \/ DepsRemoveLocal
  \/ \E v \in Versions : DepsWriteExt(v)
  \/ DepsRemoveExt

SpecMissing == InitMissing /\ [][NextMissing]_vars

(***************************************************************************)
(* Dependencies stored and read back: an instance as a build leaves it     *)
(* (sealed, its state captured) is serialized, and deserialized at the     *)
(* same root or rebased to the second input directory.                     *)
(***************************************************************************)
InitSer ==
  /\ QuietEngine
  /\ hist = InitHist
  /\ clock = 0
  /\ input = TreeWith(FileNode(PlainContent(1), 0))
  /\ input2 \in { TreeWith(FileNode(PlainContent(1), 0)),
                  TreeWith(FileNode(PlainContent(2), 0)),
                  TreeWith(Absent) }
  /\ ext = FileNode(PlainContent(1), 0)
  /\ cache = EmptyCache
  /\ \E m \in StoredDeclarations :
       dependencies = { sealDependencies([ NewDependenciesAt("in") EXCEPT !.dependencyMap = m ]) }
  /\ call = [ op |-> "new", prev |-> "none", prevFiles |-> << >>, err |-> FALSE,
              files |-> << >>, arg |-> {}, before |-> {} ]

NextSer ==
  \/ DepsSerialize
  \/ \E newRoot \in { {}, { "in2" } } : DepsDeserialize(newRoot)
  \/ DepsGetInvalidatedFiles
  \/ \E v \in Versions : DepsWriteLocal(v)
  \/ DepsRemoveLocal
  \/ \E v \in Versions : DepsWriteExt(v)
  \/ DepsChmodExt

SpecSer == InitSer /\ [][NextSer]_vars

(***************************************************************************)
(* Several instances over one persistent cache: an instance is built, then *)
(* a new instance of the same subclass is constructed over the same input  *)
(* directory with an output directory of its own; the persistent cache is  *)
(* what the instances share.                                               *)
(***************************************************************************)
MaxInstances == 2

\* The options explored with persist: true, without dependency
\* invalidation: synchronously with a target extension, and asynchronously.
PersistOptions ==
  { o \in [ extensions             : { { << ExtJs >> } },
            targetExtension        : { {}, { ExtMd } },
            async                  : BOOLEAN,
            dependencyInvalidation : { FALSE },
            concurrency            : { { 2 } },
            persist                : { { TRUE } } ] :
      o.async <=> o.targetExtension = {} }

\* The subclasses explored.
Hooks == { DefaultMethods, RewritingMethods }

InitPersist ==
  \E options \in PersistOptions, e \in EngineEnvs, tree \in InitialInputs, hook \in Hooks :
    InitInstance(options, e, tree, hook)

\* new Subclass(inputPath, options) once more, and a builder for it.
NewInstance ==
  /\ pc = "idle"
  /\ builds >= 1
  /\ hist.instance < MaxInstances
  /\ output' = EmptyOutput
  /\ currentTree' = EmptyTree
  /\ dependencies' = {}
  /\ needsReset' = FALSE
  /\ outputLinks' = {}
  /\ patches' = << >>
  /\ patchIdx' = 1
  /\ invalidated' = << >>
  /\ pendingWork' = << >>
  /\ inFlight' = {}
  /\ firstError' = {}
  /\ lastResult' = "none"
  /\ psCalls' = << >>
  /\ ppCalls' = << >>
  /\ settled' = {}
  /\ hist' = [ InitHist EXCEPT
                 !.instance = hist.instance + 1,
                 !.primed   = /\ lastResult = "ok"
                              /\ hist.prevResult = "none"
                              /\ hist.pendingEdits = << >> ]
  /\ cfg' = [ cfg EXCEPT !.processorInitialized = FALSE ]
  /\ UNCHANGED << call, input2, cache, env, clock, input, ext, pc, builds >>

NextPersist ==
  \/ \E p \in FilePaths : \E c \in ContentsFor(p) : WriteInput(p, c)
  \/ \E p \in InPaths : RemoveInput(p)
  \/ BuildStart
  \/ ApplyDirOrUnlinkPatch
  \/ \E ok \in BOOLEAN : ApplyFilePatchSync(ok)
  \/ EnqueueFilePatch
  \/ TaskStart
  \/ \E f \in inFlight, ok \in BOOLEAN : TaskSettle(f, ok)
  \/ BuildFinish
  \/ NewInstance

SpecPersist == InitPersist /\ [][NextPersist]_vars

(***************************************************************************)
(* The persistent strategy with dependency invalidation: a file the        *)
(* dependencies invalidate is passed to the strategy with                  *)
(* forceInvalidation; the dependencies a build leaves are stored for the   *)
(* next process, whose first build starts from them.                       *)
(***************************************************************************)
ForceOptions ==
  { o \in [ extensions             : { { << ExtJs >> } },
            targetExtension        : { {}, { ExtMd } },
            async                  : BOOLEAN,
            dependencyInvalidation : { TRUE },
            concurrency            : { { 2 } },
            persist                : { { TRUE } } ] :
      o.async <=> o.targetExtension = {} }

InitForce ==
  \E options \in ForceOptions, e \in EngineEnvs, tree \in InitialInputs :
    InitInstance(options, e, tree, DefaultMethods)

NextForce ==
  \/ \E p \in FilePaths : \E c \in ContentsFor(p) : WriteInput(p, c)
  \/ \E p \in InPaths : RemoveInput(p)
  \/ \E v \in Versions : WriteExt(v)
  \/ BuildStart
  \/ ApplyDirOrUnlinkPatch
  \/ \E ok \in BOOLEAN : ApplyFilePatchSync(ok)
  \/ EnqueueFilePatch
  \/ TaskStart
  \/ \E f \in inFlight, ok \in BOOLEAN : TaskSettle(f, ok)
  \/ BuildFinish
  \/ NewInstance

SpecForce == InitForce /\ [][NextForce]_vars

(***************************************************************************)
(* A subclass that asks for persistence without implementing baseDir.      *)
(***************************************************************************)
InitAbstract ==
  \E options \in PersistOptions, e \in EngineEnvs, tree \in InitialInputs :
    InitInstance(options, e, tree, AbstractBaseDir)

SpecAbstract == InitAbstract /\ [][Next]_vars

(***************************************************************************)
(* Dependency tracking over a longer run: the default strategy with        *)
(* dependency invalidation, on input trees whose files declare each other  *)
(* or themselves, followed for MaxTrackedBuilds builds.                    *)
(***************************************************************************)
MaxTrackedBuilds == 3

TrackOptions ==
  { o \in EngineOptions :
      o.dependencyInvalidation /\ o.extensions # {} /\ o.targetExtension = {} }

\* a.js and d/b.js inline each other.
CircularInput ==
  [ p \in InPaths |->
      IF p = P_a_js THEN FileNode(RefContent(1, Local(P_d_b_js)), 0)
      ELSE IF p = P_d_b_js THEN FileNode(RefContent(1, Local(P_a_js)), 0)
      ELSE IF p = P_d THEN DirNode
      ELSE Absent ]

\* a.js inlines itself.
SelfInput ==
  [ p \in InPaths |->
      IF p = P_a_js THEN FileNode(RefContent(1, Local(P_a_js)), 0) ELSE Absent ]

TrackedInputs == { SeededInput, CircularInput, SelfInput }

InitTrack ==
  \E options \in TrackOptions, e \in EngineEnvs, tree \in TrackedInputs :
    InitInstanceWith(options, e, tree, DefaultMethods,
                     [ InitHist EXCEPT !.horizon = MaxTrackedBuilds ])

\* The text of a file is rewritten, its inline directive kept.
RewriteInput(p) ==
  /\ CanEdit
  /\ input[p].k = "file"
  /\ clock' = clock + 1
  /\ input' = [ input EXCEPT ![p] =
                  FileNode([ v |-> 3 - input[p].c.v, ref |-> input[p].c.ref ], clock + 1) ]
  /\ hist' = [ hist EXCEPT !.pendingEdits = Append(@, Edit("write", p, TRUE, TRUE)) ]
  /\ UNCHANGED << ext, engineVars >>

NextTrack ==
  \/ \E p \in FilePaths : \E c \in ContentsFor(p) : WriteInput(p, c)
  \/ \E p \in FilePaths : RewriteInput(p)
  \/ \E p \in InPaths : RemoveInput(p)
  \/ \E v \in Versions : WriteExt(v)
  \/ BuildStart
  \/ ApplyDirOrUnlinkPatch
  \/ \E ok \in BOOLEAN : ApplyFilePatchSync(ok)
  \/ EnqueueFilePatch
  \/ TaskStart
  \/ \E f \in inFlight, ok \in BOOLEAN : TaskSettle(f, ok)
  \/ BuildFinish

SpecTrack == InitTrack /\ [][NextTrack]_vars

(***************************************************************************)
(* Edits made while a build is in progress: another process writes the     *)
(* file outside the input directory, or rewrites a file of the input tree, *)
(* between two steps of the build.                                         *)
(***************************************************************************)
InitRace ==
  \E options \in TrackOptions, e \in EngineEnvs :
    InitEngine(options, e, SeededInput)

CanEditDuringBuild == pc \in { "patching", "queue" } /\ clock < MaxClock

WriteExtDuringBuild(v) ==
  /\ CanEditDuringBuild
  /\ clock' = clock + 1
  /\ ext' = FileNode(PlainContent(v), clock + 1)
  /\ hist' = [ hist EXCEPT !.pendingEdits =
                 Append(@, Edit("ext", ExtFile.rel, TRUE, ext.c.v # v)) ]
  /\ UNCHANGED << input, engineVars >>

RewriteInputDuringBuild(p) ==
  /\ CanEditDuringBuild
  /\ input[p].k = "file"
  /\ clock' = clock + 1
  /\ input' = [ input EXCEPT ![p] =
                  FileNode([ v |-> 3 - input[p].c.v, ref |-> input[p].c.ref ], clock + 1) ]
  /\ hist' = [ hist EXCEPT !.pendingEdits = Append(@, Edit("write", p, TRUE, TRUE)) ]
  /\ UNCHANGED << ext, engineVars >>

NextRace ==
  \/ \E p \in FilePaths : \E c \in ContentsFor(p) : WriteInput(p, c)
  \/ \E p \in InPaths : RemoveInput(p)
  \/ \E v \in Versions : WriteExt(v)
  \/ \E v \in Versions : WriteExtDuringBuild(v)
  \/ \E p \in FilePaths : RewriteInputDuringBuild(p)
  \/ BuildStart
  \/ ApplyDirOrUnlinkPatch
  \/ \E ok \in BOOLEAN : ApplyFilePatchSync(ok)
  \/ EnqueueFilePatch
  \/ TaskStart
  \/ \E f \in inFlight, ok \in BOOLEAN : TaskSettle(f, ok)
  \/ BuildFinish

SpecRace == InitRace /\ [][NextRace]_vars

(***************************************************************************)
(* The persistent strategy's init (lib/strategies/persistent.js): the key  *)
(* of the disk cache is kept in a static property of the instance's        *)
(* constructor.  Two constructors are followed, a subclass of Filter and a *)
(* class derived from it; a static property that a constructor does not    *)
(* have itself is read from the constructor it extends.  An instance has a *)
(* baseDir, of which hashForDep gives a hash, and a cacheKey method, the   *)
(* inherited one (which returns that hash) or an override.  `call` holds   *)
(* the static properties and the instances initialized so far.             *)
(***************************************************************************)
FilterClasses == { "Sub", "Derived" }

\* The hashes hashForDep returns, and the keys an overridden cacheKey returns.
DirHashes    == { "h1", "h2" }
OverrideKeys == { "k1", "k2" }

\* ctx.cacheKey(): Filter.prototype.cacheKey unless overridden
Filter_cacheKey(ctx) ==
  IF ctx.override = {} THEN ctx.dirHash ELSE CHOOSE k \in ctx.override : TRUE

\* ctx.constructor._persistentCacheKey: the constructor's own property, or
\* that of the class it extends; {} when undefined
StaticCacheKey(statics, class) ==
  IF statics[class] # {} THEN statics[class]
  ELSE IF class = "Derived" THEN statics["Sub"]
  ELSE {}

\* cacheKey: function(ctx) { return hashForDep(ctx.baseDir()); }
PersistentStrategy_cacheKey(ctx) == ctx.dirHash

\* init(ctx): the static properties after the call, and the key the disk
\* cache of the instance is created with.
PersistentStrategy_init(statics, ctx) ==
  LET statics1 == IF StaticCacheKey(statics, ctx.class) = {}
                  THEN [ statics EXCEPT ![ctx.class] = { PersistentStrategy_cacheKey(ctx) } ]
                  ELSE statics
  IN [ statics |-> statics1,
       cacheName |-> CHOOSE k \in StaticCacheKey(statics1, ctx.class) : TRUE ]

InitNamespace ==
  /\ QuietEngine
  /\ hist = InitHist
  /\ clock = 0
  /\ input = EmptyInput
  /\ ext = FileNode(PlainContent(1), 0)
  /\ dependencies = {}
  /\ input2 = EmptyInput
  /\ cache = EmptyCache
  /\ call = [ op |-> "init", statics |-> [ c \in FilterClasses |-> {} ], instances |-> << >> ]

\* new Class(inputTree, { persist: true }) and the processor.init(this) of
\* its first build
InitPersistentFilter(class, dirHash, override) ==
  /\ call.op = "init"
  /\ Len(call.instances) < MaxInstances
  /\ LET ctx == [ class |-> class, dirHash |-> dirHash, override |-> override ]
         r   == PersistentStrategy_init(call.statics, ctx)
     IN call' = [ call EXCEPT
                    !.statics = r.statics,
                    !.instances = Append(@, [ ctx |-> ctx, cacheName |-> r.cacheName ]) ]
  /\ UNCHANGED << quietVars, hist, clock, input, ext, dependencies, input2, cache >>

NextNamespace ==
  \E class \in FilterClasses, dirHash \in DirHashes,
     override \in { {} } \cup { { k } : k \in OverrideKeys } :
    InitPersistentFilter(class, dirHash, override)

SpecNamespace == InitNamespace /\ [][NextNamespace]_vars

(***************************************************************************)
(* Builds under fairness.  The instance is constructed with any of the     *)
(* option objects of a transform with extensions and dependency            *)
(* invalidation, and for the asynchronous ones also with a negative        *)
(* options.concurrency, which the constructor keeps (see                   *)
(* ResolveConcurrency).  The event loop runs every continuation that is    *)
(* ready (the patch loop, the pool, the end of the build), and every       *)
(* processString / postProcess invocation that was started settles.        *)
(***************************************************************************)
SettleOptions ==
  LET given == { o \in EngineOptions : o.extensions # {} /\ o.dependencyInvalidation }
  IN given \cup { [ o EXCEPT !.concurrency = { MinN } ] : o \in { g \in given : g.async } }

InitSettle ==
  \E options \in SettleOptions, e \in EngineEnvs, tree \in InitialInputs :
    InitEngine(options, e, tree)

\* The steps of build() that the engine takes by itself.
EngineStep ==
  \/ ApplyDirOrUnlinkPatch
  \/ EnqueueFilePatch
  \/ TaskStart
  \/ BuildFinish

\* A transform invocation settles, resolving or rejecting.
TransformSettles ==
  \/ \E ok \in BOOLEAN : ApplyFilePatchSync(ok)
  \/ \E f \in inFlight, ok \in BOOLEAN : TaskSettle(f, ok)

SpecSettle ==
  /\ InitSettle
  /\ [][Next]_vars
  /\ WF_vars(EngineStep)
  /\ WF_vars(TransformSettles)


(***************************************************************************)
(* Vocabulary of the properties.                                           *)
(***************************************************************************)
Succeeded(result) == result \in { "ok", "early" }

\* A build has settled and the input has not been edited since it started.
SettledOn == pc = "idle" /\ builds >= 1 /\ hist.pendingEdits = << >>

NoDuplicates(s) == \A i, j \in 1..Len(s) : s[i] = s[j] => i = j

\* The input entries that own output path q.
OwnersOf(q) == { p \in InPaths : input[p].k # "absent" /\ OutputPathOf(p) = q }

\* What the mirror of the input tree holds at output path q, for the one
\* input entry p that owns it.
MirrorsEntry(node, p) ==
  IF input[p].k = "dir" THEN node.k = "dir"
  ELSE IF canProcessFile(p)
  THEN /\ node.k = "file"
       /\ node.text = TransformText(input[p].c, cfg.dependencyInvalidation)
  ELSE node.k = "link" /\ node.to = { p }

\* The output tree is the mirror of the input tree.
OutputMirrorsInput ==
  \A q \in OutPaths :
    IF OwnersOf(q) = {} THEN output[q].k = "absent"
    ELSE \E p \in OwnersOf(q) : MirrorsEntry(output[q], p)

\* The files whose declarations, when the last build started, included f.
DependentsBefore(f) ==
  { g \in InPaths : \E D \in hist.prevDeps :
      /\ g \in DOMAIN D.dependencyMap
      /\ Local(f) \in Range(D.dependencyMap[g]) }

\* The patch loop of the current/last build ran to its end, so that
\* queue(worker, pendingWork, concurrency) was called.
ReachedQueue == patchIdx > Len(patches)

\* The files with a 'create' or 'change' patch in the current/last build.
QueuedPaths ==
  { patches[i].path : i \in { j \in 1..Len(patches) : patches[j].op \in { "create", "change" } } }

\* The current/last build had a 'change' patch for p.
ChangedTo(p) ==
  \E i \in 1..Len(patches) : patches[i].op = "change" /\ patches[i].path = p

\* The last build followed a build that returned without error, and the
\* one edit in between rewrote the processable file f with other content.
SingleContentChange(f) ==
  /\ pc = "idle" /\ builds >= 2
  /\ Succeeded(hist.prevResult)
  /\ hist.buildEdits = << Edit("write", f, TRUE, TRUE) >>
  /\ canProcessFile(f)

\* The concurrency the constructor is to resolve, read with "given" and
\* "set" meaning present and non-zero (a number, for JOBS).
Truthy(x) == x # {} /\ x # { 0 }

\* s is a suffix of p.
EndsWith(p, s) ==
  Len(s) <= Len(p) /\ SubSeq(p, Len(p) - Len(s) + 1, Len(p)) = s

\* p, which ends with the extension e, with e replaced by t.
WithExtension(p, e, t) == SubSeq(p, 1, Len(p) - Len(e)) \o t

\* The last call on the Dependencies instance was op; its arguments and the
\* instance it was made on.
LastCall(op) == call.op = op
CallArg == CHOOSE a \in call.arg : TRUE
CallBefore == CHOOSE D \in call.before : TRUE

\* The files that declare dep in the instance D.
Declarers(D, dep) ==
  { f \in DOMAIN D.dependencyMap : dep \in Range(D.dependencyMap[f]) }

\* Exactly one edit was made between the baseline of the instance and the
\* call that took the next one, of this kind and on this path.
OnlyEdit(kinds, p) ==
  /\ Len(hist.buildEdits) = 1
  /\ hist.buildEdits[1].kind \in kinds
  /\ hist.buildEdits[1].path = p

\* The state of dep as the instance D reads it now differs from the state
\* D holds as its baseline.
DiffersFromBaseline(D, dep) ==
  LET depRoot == DepRootOf(D.rootDir, dep)
      q       == RelativeTo(depRoot, dep)
      now     == IF depRoot = D.rootDir THEN HashEntryOf(depRoot, q) ELSE StatEntryOf(depRoot, q)
  IN \/ depRoot \notin DOMAIN D.fsTrees
     \/ q \notin DOMAIN D.fsTrees[depRoot]
     \/ ~ TreeEntriesEqual(D.fsTrees[depRoot][q], now)

\* The files of D that declare a dependency whose state differs from the
\* baseline.
DeclarersOfChanged(D) ==
  { f \in DOMAIN D.dependencyMap :
      \E dep \in Range(D.dependencyMap[f]) : DiffersFromBaseline(D, dep) }

\* The instance was unsealed at some time: its inverse map holds a file
\* more than once, or for a dependency the file does not declare.
StaleDependents(D) ==
  \E dep \in DOMAIN D.dependentsMap :
    \/ ~ NoDuplicates(D.dependentsMap[dep])
    \/ \E f \in Range(D.dependentsMap[dep]) : f \notin Declarers(D, dep)

\* The instance serialize() was last called on.
StoredDeps == CHOOSE D \in hist.serialized : TRUE

\* D is sealed and holds a captured tree for every root it tracks.
HasBaseline(D) ==
  D.sealed /\ DOMAIN D.allDependencies \subseteq DOMAIN D.fsTrees

\* The tracked files are in the state D holds as its baseline.
AtBaseline(D) == HasBaseline(D) /\ DeclarersOfChanged(D) = {}

\* The state of the dependency dep of the stored instance D, read with
\* rootDir moved to newRootDir, differs from the baseline D holds: the
\* content for a dependency under D's root, the stat for any other.
DiffersUnder(D, dep, newRootDir) ==
  IF dep.root = D.rootDir
  THEN D.fsTrees[D.rootDir][dep.rel].hash # HashEntryOf(newRootDir, dep.rel).hash
  ELSE ~ TreeEntriesEqual(D.fsTrees[FsRoot][dep], StatEntryOf(FsRoot, dep))

\* The stored instance declares a dependency that is outside its root and
\* under the directory dir.
DeclaresUnder(D, dir) ==
  \E f \in DOMAIN D.dependencyMap :
    \E dep \in Range(D.dependencyMap[f]) : dep.root = dir /\ dir # D.rootDir

\* An environment variable is set, and set to a non-empty string.
IsSet(x) == x # {}
IsNonEmpty(x) == \E v \in x : v # ""

\* The input files the filter processes (the others are linked).
ProcessableFiles == { p \in FilePaths : input[p].k = "file" /\ canProcessFile(p) }

\* The first build of an instance constructed after a former instance built
\* the same inputs successfully, started or finished, the inputs being
\* still the same.
PrimedFirstBuild ==
  /\ hist.instance >= 2
  /\ hist.primed
  /\ hist.prevResult = "none"
  /\ hist.buildEdits = << >>
  /\ hist.pendingEdits = << >>
  /\ pc # "idle" \/ lastResult # "none"

\* The cache key of input file p as the running (or last) build read it.
KeyOf(p) == cacheKeyProcessString(input[p].c, p)

\* The persistent cache held an entry for p when the build started.
WasCached(p) == input[p].k = "file" /\ KeyOf(p) \in DOMAIN hist.prevCache.entries

\* The input is as the running (or last) build found it.
InputAsBuilt == builds >= 1 /\ hist.pendingEdits = << >>

\* The indices of the build's merged patch list, and those naming path p.
PatchIndices == 1..Len(patches)
PatchesFor(p) == { i \in PatchIndices : patches[i].path = p }


\* The create and change patches among the first n patches, in list order.
WritePatchesUpTo(n) ==
  SelectSeq(SubSeq(patches, 1, n), LAMBDA x : x.op \in { "create", "change" })

\* The position of the create or change patch of path p in the patch list.
WriteIndex(p) ==
  CHOOSE i \in PatchIndices : patches[i].path = p /\ patches[i].op \in { "create", "change" }

(***************************************************************************)
(* C1 (idempotence): a build that follows a build that returned without    *)
(* error, with no edit of the input tree or of a dependency in between,    *)
(* calls processString and postProcess zero times, returns without error   *)
(* and leaves the output tree as it was.                                   *)
(***************************************************************************)
C1_Idempotence ==
  ( /\ pc = "idle" /\ builds >= 2
    /\ Succeeded(hist.prevResult)
    /\ hist.buildEdits = << >> )
  => /\ psCalls = << >>
     /\ ppCalls = << >>
     /\ Succeeded(lastResult)
     /\ output = hist.prevOutput

\* A second build after a first one that processed files and recorded
\* declarations, with nothing edited in between.
C1_Witness ==
  /\ pc = "idle" /\ builds >= 2
  /\ hist.prevResult = "ok"
  /\ hist.buildEdits = << >>
  /\ \E D \in dependencies : \E g \in DOMAIN D.dependencyMap : D.dependencyMap[g] # << >>
  /\ \E q \in OutPaths : output[q].k = "file"

(***************************************************************************)
(* C2 (minimality): when the only edit between a build that returned       *)
(* without error and the next build is a content change of one processable *)
(* file f, the next build calls processString at most once per file and    *)
(* only for f and the files whose declared dependencies include f; when it *)
(* succeeds it has called it for every one of them.                        *)
(***************************************************************************)
C2_Minimality ==
  \A f \in FilePaths :
    SingleContentChange(f) =>
      /\ NoDuplicates(psCalls)
      /\ Range(psCalls) \subseteq { f } \cup DependentsBefore(f)
      /\ lastResult = "ok" => Range(psCalls) = { f } \cup DependentsBefore(f)

\* The changed file had a dependent other than itself and both were processed.
C2_Witness ==
  \E f \in FilePaths :
    /\ SingleContentChange(f)
    /\ lastResult = "ok"
    /\ DependentsBefore(f) \ { f } # {}
    /\ Len(psCalls) = 2

(***************************************************************************)
(* C3 (mirror): after every build that returned without error, provided    *)
(* no two input files ever shared an output path, the output tree holds    *)
(* exactly one entry per input entry: a directory per directory, the       *)
(* transform output at getDestFilePath(p) per processable file p, a link   *)
(* to p at p per other file, and nothing else.                             *)
(***************************************************************************)
C3_Mirror ==
  ( SettledOn /\ Succeeded(lastResult) /\ ~ hist.everCollided )
  => OutputMirrorsInput

\* A successful build after an edit, whose output holds a directory, a
\* transformed file and a link.
C3_Witness ==
  /\ SettledOn /\ lastResult = "ok" /\ ~ hist.everCollided
  /\ builds >= 2 /\ hist.buildEdits # << >>
  /\ \E q \in OutPaths : output[q].k = "dir"
  /\ \E q \in OutPaths : output[q].k = "file"
  /\ \E q \in OutPaths : output[q].k = "link"

(***************************************************************************)
(* C4 (recovery): the build after a failed build goes through the reset    *)
(* block, and when it returns without error the output tree is the mirror  *)
(* of the input tree with every file written by that very build, as on     *)
(* the first build of a new instance.                                      *)
(***************************************************************************)
C4_Recovery ==
  ( pc = "idle" /\ builds >= 2 /\ hist.prevResult = "failed" )
  => /\ hist.didReset
     /\ ( Succeeded(lastResult) /\ hist.pendingEdits = << >> )
        => /\ OutputMirrorsInput
           /\ \A q \in OutPaths : output[q].k = "file" => output[q].stamp = builds
           /\ currentTree = WalkInput
           /\ \A D \in dependencies :
                DOMAIN D.dependencyMap = { p \in FilePaths : input[p].k = "file" /\ canProcessFile(p) }

\* A build that failed leaving files in the output tree, followed by a
\* build that succeeded.
C4_Witness ==
  /\ pc = "idle" /\ builds >= 2
  /\ hist.prevResult = "failed" /\ lastResult = "ok"
  /\ hist.pendingEdits = << >>
  /\ \E q \in OutPaths : hist.prevOutput[q].k = "file"
  /\ \E q \in OutPaths : output[q].k = "file"

(***************************************************************************)
(* C5 (needs_reset): after a build that returned without error, early      *)
(* return included, _needsReset is false; after a build that failed while  *)
(* applying patches it is true.                                            *)
(***************************************************************************)
C5_NeedsReset ==
  ( pc = "idle" /\ builds >= 1 )
  => /\ Succeeded(lastResult) => ~ needsReset
     /\ ( lastResult = "failed" /\ patches # << >> ) => needsReset

C7_BoundedParallelism == Cardinality(inFlight) <= cfg.concurrency

\* The limit is reached while another operation waits in the queue.
C7_Witness ==
  /\ pc = "queue"
  /\ Cardinality(inFlight) = cfg.concurrency
  /\ cfg.concurrency >= 2
  /\ pendingWork # << >>

(***************************************************************************)
(* C8 (concurrency resolution), as stated: this.concurrency equals         *)
(* options.concurrency when given, otherwise the numeric value of JOBS     *)
(* when set, otherwise max(cpu_count - 1, 1).                              *)
(***************************************************************************)
C8_AsStated ==
  pc = "idle" =>
    IF env.optConcurrency # {} THEN { cfg.concurrency } = env.optConcurrency
    ELSE IF env.JOBS # {}
    THEN \A j \in env.JOBS : j.numeric => cfg.concurrency = j.n
    ELSE cfg.concurrency = Max(env.cpus - 1, 1)

(***************************************************************************)
(* C8 (concurrency resolution), amended: this.concurrency equals           *)
(* options.concurrency when given and not 0, otherwise the numeric value   *)
(* of JOBS when JOBS is set to a number other than 0, otherwise            *)
(* max(cpu_count - 1, 1).                                                  *)
(***************************************************************************)
C8_Resolution ==
  pc = "idle" =>
    IF Truthy(env.optConcurrency) THEN { cfg.concurrency } = env.optConcurrency
    ELSE IF \E j \in env.JOBS : j.numeric /\ j.n # 0
    THEN \A j \in env.JOBS : cfg.concurrency = j.n
    ELSE cfg.concurrency = Max(env.cpus - 1, 1)

\* options.concurrency was given as 0 and JOBS names a number: the instance
\* runs with the number from JOBS.
C8_Witness ==
  /\ pc = "idle"
  /\ env.optConcurrency = { 0 }
  /\ \E j \in env.JOBS : j.numeric /\ j.n = 2 /\ cfg.concurrency = 2
  /\ env.cpus = 2

(***************************************************************************)
(* C9 (mtime preservation): when a build handles a 'change' patch of a     *)
(* processable file and the transform output equals the text already at    *)
(* the destination, the output file is not written: after the build it     *)
(* still has the stamp of the build that wrote it.                         *)
(***************************************************************************)
C9_MtimePreserved ==
  ( pc = "idle" /\ builds >= 1 )
  => \A p \in FilePaths :
       ( /\ ChangedTo(p) /\ canProcessFile(p)
         /\ hist.prevOutput[OutputPathOf(p)].k = "file"
         /\ output[OutputPathOf(p)].k = "file"
         /\ output[OutputPathOf(p)].text = hist.prevOutput[OutputPathOf(p)].text )
       => output[OutputPathOf(p)].stamp = hist.prevOutput[OutputPathOf(p)].stamp

\* A file was rewritten with other content of the same transform output, or
\* only touched, and went through processString again.
C9_Witness ==
  /\ pc = "idle" /\ builds >= 2 /\ lastResult = "ok"
  /\ \E p \in FilePaths :
       /\ ChangedTo(p) /\ canProcessFile(p)
       /\ p \in Range(psCalls)
       /\ output[OutputPathOf(p)].k = "file"
       /\ output[OutputPathOf(p)] = hist.prevOutput[OutputPathOf(p)]

(***************************************************************************)
(* C10 (extension gating): processString is only ever called for files     *)
(* canProcessFile accepts, and after a successful build every created or   *)
(* changed file it does not accept is a link at its own relative path.     *)
(***************************************************************************)
C10_ExtensionGating ==
  /\ \A i \in 1..Len(psCalls) : canProcessFile(psCalls[i])
  /\ ( pc = "idle" /\ builds >= 1 /\ lastResult = "ok" )
     => \A p \in QueuedPaths :
          ~ canProcessFile(p) => output[p] = OutLink(p)

\* A build created or changed a file that is not processed, next to files
\* that are.
C10_Witness ==
  /\ pc = "idle" /\ lastResult = "ok"
  /\ psCalls # << >>
  /\ \E p \in QueuedPaths : ~ canProcessFile(p) /\ output[p] = OutLink(p)
  /\ \E p \in QueuedPaths : ~ canProcessFile(p) /\ ChangedTo(p)


(***************************************************************************)
(* C11 (getDestFilePath): the result is null for a directory; the path     *)
(* itself when extensions is null; when the path ends with '.' + ext for   *)
(* some ext of extensions, the path with that extension replaced by        *)
(* targetExtension if that is set and the path itself otherwise; and null  *)
(* in every other case, extensions = [] included.                          *)
(***************************************************************************)
C11_DestFilePath ==
  ( call.op = "getDestFilePath" /\ call.done ) =>
    LET p == call.relativePath
        matching == IF call.extensions = {} THEN {}
                    ELSE { e \in Range(CHOOSE l \in call.extensions : TRUE) :
                             EndsWith(p, << "." >> \o e) }
    IN IF call.isDir THEN call.result = {}
       ELSE IF call.extensions = {} THEN call.result = { p }
       ELSE IF matching = {} THEN call.result = {}
       ELSE \E e \in matching :
              call.result = IF call.targetExtension = {} THEN { p }
                            ELSE { WithExtension(p, e, CHOOSE t \in call.targetExtension : TRUE) }

\* The same with every extension of the list non-empty.
C11_NonEmptyExtensions ==
  ( /\ call.op = "getDestFilePath"
    /\ \A l \in call.extensions : \A e \in Range(l) : e # << >> )
  => C11_DestFilePath

\* A path that matches the second extension of the list got the target
\* extension.
C11_Witness ==
  /\ call.op = "getDestFilePath" /\ call.done /\ ~ call.isDir
  /\ call.extensions = { << << "m", "d" >>, << "j", "s" >> >> }
  /\ call.targetExtension = { << "m", "d" >> }
  /\ call.relativePath = << "a", ".", "j", "s" >>
  /\ call.result = { << "a", ".", "m", "d" >> }


(***************************************************************************)
(* C12 (setDependencies and sealing): on a sealed instance setDependencies *)
(* throws and leaves dependencyMap, dependentsMap and the captured state   *)
(* as they were; on an unsealed instance it replaces the declaration of    *)
(* that file and of no other.                                              *)
(***************************************************************************)
C12_SealedRejects ==
  LastCall("setDependencies") =>
    LET D0 == CallBefore
        D  == TheDeps
        f  == CallArg[1]
    IN IF D0.sealed
       THEN /\ call.err
            /\ D.dependencyMap = D0.dependencyMap
            /\ D.dependentsMap = D0.dependentsMap
            /\ D.fsTrees = D0.fsTrees
            /\ D.sealed
       ELSE /\ ~ call.err
            /\ DOMAIN D.dependencyMap = DOMAIN D0.dependencyMap \cup { f }
            /\ D.dependencyMap[f] = CallArg[2]
            /\ \A g \in DOMAIN D0.dependencyMap \ { f } :
                 D.dependencyMap[g] = D0.dependencyMap[g]

\* setDependencies threw on a sealed instance that holds declarations and
\* a captured state.
C12_Witness ==
  /\ LastCall("setDependencies") /\ call.err
  /\ CallBefore.sealed
  /\ CallBefore.fsTrees # EmptyMap
  /\ CallArg[1] \in DOMAIN CallBefore.dependencyMap
  /\ CallArg[2] # CallBefore.dependencyMap[CallArg[1]]

\* setDependencies replaced a declaration on an unsealed instance.
C12_WitnessUnsealed ==
  /\ LastCall("setDependencies") /\ ~ call.err
  /\ CallArg[1] \in DOMAIN CallBefore.dependencyMap
  /\ CallArg[2] # CallBefore.dependencyMap[CallArg[1]]


(***************************************************************************)
(* C13 (hash inside, stat outside): when a dependency under rootDir got a  *)
(* new mtime with the content it had, getInvalidatedFiles reports none of  *)
(* its dependents, and when its content changed it reports them all; when  *)
(* a dependency outside rootDir got a new mtime or a new mode, with the    *)
(* content it had or not, it reports all its dependents.                   *)
(***************************************************************************)
C13_HashInsideStatOutside ==
  ( LastCall("getInvalidatedFiles") /\ ~ call.err ) =>
    /\ ( OnlyEdit({ "write" }, P_d_b_js) /\ ~ hist.buildEdits[1].changed )
         => call.files = << >>
    /\ ( OnlyEdit({ "write", "remove" }, P_d_b_js) /\ hist.buildEdits[1].changed )
         => Declarers(CallBefore, LocalDep) \subseteq Range(call.files)
    /\ OnlyEdit({ "ext", "chmod" }, ExtFile.rel)
         => Declarers(CallBefore, ExtFile) \subseteq Range(call.files)

\* A dependency under rootDir was touched and its dependents were not
\* reported.
C13_Witness ==
  /\ LastCall("getInvalidatedFiles") /\ ~ call.err
  /\ OnlyEdit({ "write" }, P_d_b_js) /\ ~ hist.buildEdits[1].changed
  /\ input[P_d_b_js].m > 0
  /\ Declarers(CallBefore, LocalDep) # {}
  /\ call.files = << >>

\* The mode of a dependency outside rootDir changed, nothing else, and its
\* dependents were reported.
C13_WitnessMode ==
  /\ LastCall("getInvalidatedFiles") /\ ~ call.err
  /\ OnlyEdit({ "chmod" }, ExtFile.rel)
  /\ Declarers(CallBefore, ExtFile) # {}
  /\ Range(call.files) = Declarers(CallBefore, ExtFile)


(***************************************************************************)
(* C14 (getInvalidatedFiles is exact): on a sealed instance with a         *)
(* captured baseline, getInvalidatedFiles returns the files that declare   *)
(* at least one dependency whose state differs from the baseline, each     *)
(* once, and no other file.                                                *)
(***************************************************************************)
C14_ExactInvalidation ==
  ( LastCall("getInvalidatedFiles") /\ ~ call.err ) =>
    /\ Range(call.files) = DeclarersOfChanged(CallBefore)
    /\ NoDuplicates(call.files)

\* The same for instances whose inverse map is as seal() built it from the
\* declarations.
C14_NeverUnsealed ==
  ( LastCall("getInvalidatedFiles") /\ ~ StaleDependents(CallBefore) )
  => C14_ExactInvalidation

\* Of two files that declare dependencies, one was reported and one not.
C14_Witness ==
  /\ LastCall("getInvalidatedFiles") /\ ~ call.err
  /\ ~ StaleDependents(CallBefore)
  /\ \E f, g \in DOMAIN CallBefore.dependencyMap :
       /\ CallBefore.dependencyMap[f] # << >> /\ CallBefore.dependencyMap[g] # << >>
       /\ call.files = << f >> /\ g # f


(***************************************************************************)
(* C15 (baseline adoption): getInvalidatedFiles adopts the state it        *)
(* computed as the baseline, so a call that follows another call with no   *)
(* edit of a file in between returns the empty list.                       *)
(***************************************************************************)
C15_BaselineAdoption ==
  ( LastCall("getInvalidatedFiles") /\ call.prev = "getInvalidatedFiles" /\ ~ call.err ) =>
    /\ call.files = << >>
    /\ CallBefore.fsTrees = Dependencies_getDependencyState(CallBefore)

\* The first of two calls reported a file, the second none.
C15_Witness ==
  /\ LastCall("getInvalidatedFiles") /\ call.prev = "getInvalidatedFiles" /\ ~ call.err
  /\ call.prevFiles # << >>
  /\ call.files = << >>


(***************************************************************************)
(* C16 (round trip): for a sealed instance D with a captured baseline,     *)
(* deserialize(serialize(D)) is a sealed instance with the dependency map  *)
(* of D, and its getInvalidatedFiles, called while the tracked files are   *)
(* as D's baseline has them, returns the empty list.                       *)
(***************************************************************************)
C16_RoundTrip ==
  /\ ( LastCall("deserialize") /\ call.arg = {} /\ HasBaseline(StoredDeps) ) =>
       /\ TheDeps.sealed
       /\ TheDeps.rootDir = StoredDeps.rootDir
       /\ TheDeps.dependencyMap = StoredDeps.dependencyMap
  /\ ( /\ LastCall("getInvalidatedFiles") /\ call.prev = "deserialize"
       /\ CallBefore.rootDir = StoredDeps.rootDir
       /\ AtBaseline(StoredDeps) ) =>
       ( ~ call.err /\ call.files = << >> )

\* An instance with a dependency under rootDir and one outside was stored,
\* read back and asked for its invalidated files.
C16_Witness ==
  /\ LastCall("getInvalidatedFiles") /\ call.prev = "deserialize"
  /\ CallBefore.rootDir = StoredDeps.rootDir
  /\ AtBaseline(StoredDeps)
  /\ \E f \in DOMAIN StoredDeps.dependencyMap :
       { LocalDep, ExtFile } \subseteq Range(StoredDeps.dependencyMap[f])
  /\ CallBefore.dependencyMap = StoredDeps.dependencyMap
  /\ ~ call.err /\ call.files = << >>


(***************************************************************************)
(* C17 (rebase on deserialize): deserializing with a new root directory    *)
(* moves every stored dependency that lay under the old root to the same   *)
(* relative path under the new root and leaves the other dependencies as   *)
(* they were; the content baseline is carried over, so getInvalidatedFiles *)
(* then reports only files with a dependency whose content under the new   *)
(* root (or whose stat, outside) differs from the stored baseline.         *)
(***************************************************************************)
C17_Rebase ==
  /\ ( LastCall("deserialize") /\ call.arg # {} /\ HasBaseline(StoredDeps) ) =>
       LET D0 == StoredDeps
           newRootDir == CHOOSE r \in call.arg : TRUE
       IN /\ TheDeps.rootDir = newRootDir
          /\ DOMAIN TheDeps.dependencyMap = DOMAIN D0.dependencyMap
          /\ \A f \in DOMAIN D0.dependencyMap :
               /\ Len(TheDeps.dependencyMap[f]) = Len(D0.dependencyMap[f])
               /\ \A i \in 1..Len(D0.dependencyMap[f]) :
                    LET dep == D0.dependencyMap[f][i] IN
                    TheDeps.dependencyMap[f][i] =
                      IF dep.root = D0.rootDir
                      THEN [ root |-> newRootDir, rel |-> dep.rel ]
                      ELSE dep
  /\ ( /\ LastCall("getInvalidatedFiles") /\ call.prev = "deserialize"
       /\ CallBefore.rootDir # StoredDeps.rootDir
       /\ HasBaseline(StoredDeps) ) =>
       /\ ~ call.err
       /\ Range(call.files) \subseteq
            { f \in DOMAIN StoredDeps.dependencyMap :
                \E dep \in Range(StoredDeps.dependencyMap[f]) :
                  DiffersUnder(StoredDeps, dep, CallBefore.rootDir) }

\* The same for stored instances none of whose dependencies lies under the
\* new root.
C17_NoneUnderNewRoot ==
  ( /\ call.op \in { "deserialize", "getInvalidatedFiles" }
    /\ hist.serialized # {}
    /\ ~ DeclaresUnder(StoredDeps, TheDeps.rootDir) )
  => C17_Rebase


(***************************************************************************)
(* C20 (persistence policy), as stated: the persistent strategy is         *)
(* selected if and only if options.persist is truthy and CI is not truthy  *)
(* or FORCE_PERSISTENCE_IN_CI is set; otherwise the default strategy is    *)
(* used.                                                                   *)
(***************************************************************************)
C20_AsStated ==
  pc = "idle" =>
    ( cfg.persist <=>
        /\ env.persist = { TRUE }
        /\ ( ~ IsNonEmpty(env.CI) \/ IsSet(env.FORCE_PERSISTENCE_IN_CI) ) )

(***************************************************************************)
(* C20 (persistence policy), amended: the persistent strategy is selected  *)
(* if and only if options.persist is truthy and CI is not truthy or        *)
(* FORCE_PERSISTENCE_IN_CI is set to a non-empty string; otherwise the     *)
(* default strategy is used.                                               *)
(***************************************************************************)
C20_Policy ==
  pc = "idle" =>
    ( cfg.persist <=>
        /\ env.persist = { TRUE }
        /\ ( ~ IsNonEmpty(env.CI) \/ IsNonEmpty(env.FORCE_PERSISTENCE_IN_CI) ) )

\* In CI with FORCE_PERSISTENCE_IN_CI set to the empty string, an instance
\* asked to persist uses the default strategy.
C20_Witness ==
  /\ pc = "idle"
  /\ env.persist = { TRUE }
  /\ env.CI = { "true" }
  /\ env.FORCE_PERSISTENCE_IN_CI = { "" }
  /\ ~ cfg.persist

\* In CI with FORCE_PERSISTENCE_IN_CI set, the persistent strategy is used.
C20_WitnessForced ==
  /\ pc = "idle"
  /\ env.persist = { TRUE }
  /\ env.CI = { "true" }
  /\ env.FORCE_PERSISTENCE_IN_CI = { "true" }
  /\ cfg.persist


(***************************************************************************)
(* C18 (persistent cache hit still runs postProcess).                      *)
(***************************************************************************)
\* C18: when a second instance builds the same inputs against a persistent
\* cache primed by a first instance, processString is never called, and
\* once the build has succeeded postProcess has been called exactly once
\* for every processed file.
C18_HitStillPostProcesses ==
  PrimedFirstBuild
  => /\ psCalls = << >>
     /\ NoDuplicates(ppCalls)
     /\ Range(ppCalls) \subseteq ProcessableFiles
     /\ pc = "idle" /\ lastResult = "ok" => Range(ppCalls) = ProcessableFiles

\* The second instance has finished such a build over two processed files.
C18_Witness ==
  /\ PrimedFirstBuild
  /\ pc = "idle" /\ lastResult = "ok"
  /\ Len(ppCalls) = 2
  /\ Cardinality(ProcessableFiles) = 2


(***************************************************************************)
(* C19 (the value postProcess returns is not persisted).                   *)
(***************************************************************************)
\* C19: every value in the persistent cache is the normalised result of
\* processString for the content and path of its key, never a value that
\* went through postProcess; and with a postProcess that rewrites the
\* output, every file the filter has written carries the rewrite exactly
\* once, on cache hits as on misses.
C19_PostProcessNotPersisted ==
  /\ \A k \in DOMAIN cache.entries :
       cache.entries[k] = TransformText(k[1], cfg.dependencyInvalidation)
  /\ cfg.postProcess = "rewrite"
     => \A q \in OutPaths : output[q].k = "file" => output[q].text.pp = 1

\* A second instance has written a file from a cache hit with a rewriting
\* postProcess.
C19_Witness ==
  /\ PrimedFirstBuild
  /\ cfg.postProcess = "rewrite"
  /\ pc = "idle" /\ lastResult = "ok"
  /\ psCalls = << >>
  /\ \E p \in Range(ppCalls) :
       /\ output[OutputPathOf(p)].k = "file"
       /\ output[OutputPathOf(p)].text = postProcess(cache.entries[cacheKeyProcessString(input[p].c, p)])


(***************************************************************************)
(* C21 (force invalidation).                                               *)
(***************************************************************************)
\* C21: every task carries forceInvalidation exactly when its file is in
\* the build's list of invalidated files; a file of that list that was
\* processed was passed to processString although the persistent cache held
\* an entry for its key, and a processed file outside the list whose key
\* was cached was answered from the cache.
C21_ForceInvalidation ==
  /\ \A i \in 1..Len(pendingWork) :
       pendingWork[i].force <=> pendingWork[i].path \in Range(invalidated)
  /\ \A f \in inFlight : f.task.force <=> f.task.path \in Range(invalidated)
  /\ InputAsBuilt
     => \A p \in Range(ppCalls) :
          /\ p \in Range(invalidated) => p \in Range(psCalls)
          /\ p \notin Range(invalidated) /\ WasCached(p) => p \notin Range(psCalls)

\* A build re-transformed an invalidated file whose key was in the cache.
C21_Witness ==
  /\ InputAsBuilt
  /\ pc = "idle" /\ lastResult = "ok"
  /\ \E p \in Range(invalidated) :
       WasCached(p) /\ p \in Range(psCalls) /\ p \in Range(ppCalls)


(***************************************************************************)
(* C22 (persist without baseDir).                                          *)
(***************************************************************************)
\* C22: every build attempt of an instance with persistence enabled whose
\* subclass does not implement baseDir has failed with the unimplemented
\* baseDir error.
C22_EveryBuildUnimplemented ==
  InitThrows /\ pc = "idle" /\ builds >= 1 => lastResult = "unimplemented"


(***************************************************************************)
(* C23 (no write through symlinks).                                        *)
(***************************************************************************)
\* C23: no transform result is ever written through an output path that is
\* a link to an input file: the input the link points to is not modified.
C23_NoWriteThroughLink == ~ hist.wroteThroughLink


(***************************************************************************)
(* C24 (the _outputLinks invariant).                                       *)
(***************************************************************************)
\* C24: between builds, whatever the outcome of the last one, _outputLinks
\* holds exactly the output paths that are links to unprocessed input
\* files.
C24_OutputLinksExact ==
  pc = "idle" => outputLinks = { q \in OutPaths : output[q].k = "link" }


(***************************************************************************)
(* C25 (one operation per path in the merged patch list).                  *)
(***************************************************************************)
\* C25: the merged patch list of a build holds at most one
\* operation per relative path.
C25_AsStated ==
  \A i, j \in PatchIndices : patches[i].path = patches[j].path => i = j


(***************************************************************************)
(* C26 (create and change patches carry the entry of the new snapshot).    *)
(***************************************************************************)
\* C26: every create or change patch of the merged list carries the entry
\* its file has in the new snapshot (this.currentTree once the patches are
\* derived), so the file it names is present in that snapshot.
C26_DestinationEntries ==
  \A i \in PatchIndices :
    patches[i].op \in { "create", "change" }
    => /\ patches[i].path \in TreePaths(currentTree)
       /\ patches[i].entry \in currentTree


(***************************************************************************)
(* C27 (directories before their files in the merged patch list).          *)
(***************************************************************************)
\* C27: in the merged patch list the mkdir of a directory comes before the
\* create of every file inside it, and the rmdir of a directory comes after
\* the unlink or rmdir of everything inside it, invalidation patches
\* included.
C27_DirectoryBeforeFile ==
  \A i, j \in PatchIndices :
    patches[i].path \in ParentDirs(patches[j].path)
    => /\ patches[i].op = "mkdir" /\ patches[j].op = "create" => i < j
       /\ patches[i].op = "rmdir" /\ patches[j].op \in { "unlink", "rmdir" } => j < i

\* The first build of a new process creates a directory and, inside it, a
\* file that the dependencies read back from the cache invalidate.
C27_Witness ==
  /\ hist.instance >= 2
  /\ hist.prevResult = "none"
  /\ pc = "patching"
  /\ \E i, j \in PatchIndices :
       /\ patches[i].op = "mkdir" /\ patches[j].op = "create"
       /\ patches[i].path \in ParentDirs(patches[j].path)
       /\ patches[j].path \in Range(invalidated)

\* A build removes a directory and a file inside it.
C27_WitnessRemoval ==
  \E i, j \in PatchIndices :
    /\ patches[i].op = "rmdir" /\ patches[j].op = "unlink"
    /\ patches[i].path \in ParentDirs(patches[j].path)
    /\ invalidated # << >>


(***************************************************************************)
(* C28 (patches are dispatched in list order).                             *)
(***************************************************************************)
\* C28: the patch loop is at one position of the list and every patch
\* before it has been dispatched.  With async = true, while the list is
\* walked no operation has started and pendingWork holds the operations of
\* the create and change patches walked so far, in list order; with
\* async = false nothing is ever queued or in flight, and every file
\* handed to processString belongs to a patch before the position of the
\* loop, in list order, its operation settled before the next patch.
C28_DispatchInListOrder ==
  /\ patchIdx \in 1..(Len(patches) + 1)
  /\ pc = "patching" => patchIdx <= Len(patches)
  /\ pc = "queue" => patchIdx = Len(patches) + 1
  /\ cfg.async /\ pc = "patching"
     => /\ inFlight = {} /\ settled = {}
        /\ psCalls = << >> /\ ppCalls = << >>
        /\ LET W == WritePatchesUpTo(patchIdx - 1)
           IN pendingWork = [ k \in 1..Len(W) |-> TaskOf(W[k]) ]
  /\ ~ cfg.async
     => /\ pendingWork = << >> /\ inFlight = {}
        /\ \A k \in 1..Len(psCalls) :
             /\ pc = "patching" => WriteIndex(psCalls[k]) < patchIdx
             /\ \A l \in 1..Len(psCalls) :
                  k < l => WriteIndex(psCalls[k]) < WriteIndex(psCalls[l])
        /\ pc = "patching" => Range(psCalls) \subseteq Range(ppCalls)

\* An asynchronous build has walked a directory patch and two file patches
\* and is still walking.
C28_Witness ==
  /\ cfg.async /\ pc = "patching"
  /\ Len(pendingWork) = 2
  /\ \E i \in 1..(patchIdx - 1) : patches[i].op \in { "mkdir", "rmdir", "unlink" }

\* A synchronous build has processed two files and is still walking.
C28_WitnessSync ==
  /\ ~ cfg.async /\ pc = "patching"
  /\ Len(psCalls) = 2


(***************************************************************************)
(* C29 (lifecycle of this.dependencies)                                    *)
(***************************************************************************)
\* The patches of the current build are being applied, or its queue runs.
ApplyingPatches == pc \in { "patching", "queue" }

\* C29, as stated: with dependency invalidation enabled, whenever no build
\* is running after the first one the instance is sealed with a captured
\* baseline, and while patches are applied it is unsealed.
C29_AsStated ==
  cfg.dependencyInvalidation =>
    /\ (pc = "idle" /\ builds >= 1) => \A D \in dependencies : HasBaseline(D)
    /\ ApplyingPatches => \A D \in dependencies : ~ D.sealed

\* C29: with dependency invalidation enabled, while the patches of a build
\* are applied (its patch list is not empty) this.dependencies is an
\* unsealed instance; once a build has resolved, by the early return or
\* after its queue, the instance is sealed and holds a tree for every root,
\* and after the queue that tree is the state the tracked files have until
\* the next edit; once a build has rejected the unsealed copy is left in
\* place and _needsReset is set, so the next build replaces it.
C29_Lifecycle ==
  cfg.dependencyInvalidation =>
    /\ ApplyingPatches =>
         /\ patches # << >>
         /\ dependencies # {}
         /\ \A D \in dependencies : ~ D.sealed
    /\ (pc = "idle" /\ lastResult \in { "ok", "early" }) =>
         /\ dependencies # {}
         /\ \A D \in dependencies : HasBaseline(D)
    /\ (pc = "idle" /\ lastResult = "ok" /\ hist.pendingEdits = << >>) =>
         \A D \in dependencies : D.fsTrees = Dependencies_getDependencyState(D)
    /\ (pc = "idle" /\ lastResult = "failed") =>
         needsReset \/ \A D \in dependencies : D.sealed

\* A second build in a row has resolved after its queue, its transforms
\* declared dependencies into the copy, and the instance holds them sealed.
C29_Witness ==
  /\ cfg.dependencyInvalidation
  /\ pc = "idle"
  /\ lastResult = "ok"
  /\ hist.prevResult = "ok"
  /\ psCalls # << >>
  /\ \E D \in dependencies :
       /\ HasBaseline(D)
       /\ DOMAIN D.allDependencies # {}
       /\ \E f \in DOMAIN D.dependencyMap : D.dependencyMap[f] # << >>

\* A transform is awaited while the instance is the unsealed copy of the
\* sealed instance of the build before.
C29_WitnessApplying ==
  /\ cfg.dependencyInvalidation
  /\ pc = "queue"
  /\ inFlight # {}
  /\ hist.prevResult = "ok"
  /\ \A D \in hist.prevDeps : D.sealed
  /\ \E D \in dependencies : ~ D.sealed /\ DOMAIN D.dependencyMap # {}


(***************************************************************************)
(* C30 (declarations carried into the copy made for a build)               *)
(***************************************************************************)
\* copyWithout has just been called: no patch of the build is applied yet.
CopyMade == pc = "patching" /\ patchIdx = 1

\* The files processString was called for in the current (or last) build.
Retransformed == Range(psCalls)

\* The last build has run its queue and resolved, and the input is as it
\* found it.
SucceededAsFound == pc = "idle" /\ lastResult = "ok" /\ hist.pendingEdits = << >>

\* After a successful build, for every file processString was called for in
\* it the entry of the instance is what that call declared.
FreshDeclarations ==
  SucceededAsFound =>
    \A D \in dependencies : \A f \in Retransformed :
      /\ f \in DOMAIN D.dependencyMap
      /\ D.dependencyMap[f] = DeclaredDeps(input[f].c)

C30_WitnessUnlinked ==
  /\ cfg.dependencyInvalidation
  /\ pc = "idle"
  /\ lastResult = "ok"
  /\ \E f \in UnlinkedFiles(patches) :
       /\ f \in DOMAIN DeclarationsBefore
       /\ DeclarationsBefore[f] # << >>
       /\ \A D \in dependencies : f \notin DOMAIN D.dependencyMap


(***************************************************************************)
(* C31 (a removed file is forgotten by the dependency tracking)            *)
(***************************************************************************)
\* The paths the patch list of the current (or last) build unlinks.
UnlinkPatched == { patches[i].path : i \in { j \in PatchIndices : patches[j].op = "unlink" } }

\* No edit between the build before and the last build's start wrote f.
NotWrittenSince(f) ==
  \A i \in 1..Len(hist.buildEdits) :
    ~ (hist.buildEdits[i].kind = "write" /\ hist.buildEdits[i].path = f)

\* An edit between the build before and the last build's start changed a
\* file that is among deps.
EditedOneOf(deps) ==
  \E i \in 1..Len(hist.buildEdits) :
    /\ hist.buildEdits[i].changed
    /\ \/ hist.buildEdits[i].kind \in { "write", "remove" }
          /\ Local(hist.buildEdits[i].path) \in Range(deps)
       \/ hist.buildEdits[i].kind = "ext" /\ ExtFile \in Range(deps)

\* C31: with dependency invalidation enabled, after a build that succeeded
\* and whose patches unlink f the instance holds no declaration for f and
\* lists f under no dependency; and in the build after it, f not having
\* been written again, f is not reported as invalidated, has no patch and
\* is not handed to processString, whatever was edited in between.
C31_UnlinkedForgotten ==
  cfg.dependencyInvalidation =>
    /\ (pc = "idle" /\ lastResult = "ok") =>
         \A f \in UnlinkPatched : \A D \in dependencies :
           /\ f \notin DOMAIN D.dependencyMap
           /\ \A dep \in DOMAIN D.dependentsMap : f \notin Range(D.dependentsMap[dep])
    /\ \A f \in DOMAIN hist.prevUnlinked :
         NotWrittenSince(f) =>
           /\ f \notin Range(invalidated)
           /\ PatchesFor(f) = {}
           /\ f \notin Range(psCalls)

\* A file that declared a dependency was removed by a successful build;
\* then the dependency was changed and the next build has succeeded with
\* other work to do.
C31_Witness ==
  /\ cfg.dependencyInvalidation
  /\ pc = "idle"
  /\ lastResult = "ok"
  /\ patches # << >>
  /\ \E f \in DOMAIN hist.prevUnlinked :
       /\ hist.prevUnlinked[f] # << >>
       /\ EditedOneOf(hist.prevUnlinked[f])
       /\ NotWrittenSince(f)
       /\ PatchesFor(f) = {}


(***************************************************************************)
(* C32 (dependencies that do not exist)                                    *)
(***************************************************************************)
\* The dependencies the instance D tracks.
TrackedDeps(D) == UNION { Range(D.dependencyMap[f]) : f \in DOMAIN D.dependencyMap }

\* The baseline D holds for dep is the entry of a file that could not be
\* read: an empty hash under the instance's root, a zero stat elsewhere.
EmptyBaseline(D, dep) ==
  LET depRoot == DepRootOf(D.rootDir, dep)
      q       == RelativeTo(depRoot, dep)
  IN /\ depRoot \in DOMAIN D.fsTrees
     /\ q \in DOMAIN D.fsTrees[depRoot]
     /\ D.fsTrees[depRoot][q] = IF depRoot = D.rootDir THEN HashEntry({})
                                                       ELSE StatEntry(0, 0, {})

\* The one edit between the baseline and the call made dep appear, or
\* removed it.
AppearedOrRemoved(dep) ==
  /\ Len(hist.buildEdits) = 1
  /\ \/ hist.buildEdits[1].kind \in { "write", "ext" } /\ ~ hist.buildEdits[1].existed
     \/ hist.buildEdits[1].kind = "remove"
  /\ dep = IF hist.buildEdits[1].path = ExtFile.rel THEN ExtFile
                                                     ELSE Local(hist.buildEdits[1].path)

\* C32: captureDependencyState on a sealed instance does not throw when a
\* declared dependency does not exist, and the baseline it records for that
\* dependency is the empty entry; a getInvalidatedFiles call that follows a
\* baseline and one edit by which a dependency appeared or was removed
\* returns exactly the files that declare that dependency.
C32_MissingTolerated ==
  /\ LastCall("captureDependencyState") =>
       /\ call.err <=> ~ TheDeps.sealed
       /\ ~ call.err =>
            \A dep \in TrackedDeps(TheDeps) :
              NodeAt(dep).k # "file" => EmptyBaseline(TheDeps, dep)
  /\ ( LastCall("getInvalidatedFiles") /\ ~ call.err ) =>
       \A dep \in TrackedDeps(CallBefore) :
         AppearedOrRemoved(dep) =>
           /\ Range(call.files) = Declarers(CallBefore, dep)
           /\ call.files # << >>

\* The baseline was captured while d/b.js did not exist; the file was then
\* written and the call returned the two files that declare it.
C32_Witness ==
  /\ LastCall("getInvalidatedFiles") /\ ~ call.err
  /\ AppearedOrRemoved(LocalDep)
  /\ ~ hist.buildEdits[1].existed
  /\ EmptyBaseline(CallBefore, LocalDep)
  /\ Len(call.files) = 2

\* The file outside the input directory was removed after the baseline.
C32_WitnessRemoved ==
  /\ LastCall("getInvalidatedFiles") /\ ~ call.err
  /\ AppearedOrRemoved(ExtFile)
  /\ hist.buildEdits[1].kind = "remove"
  /\ call.files # << >>

\* The baseline was captured while the file outside the input directory
\* did not exist.
C32_WitnessCapture ==
  /\ LastCall("captureDependencyState") /\ ~ call.err
  /\ ext.k = "absent"
  /\ ExtFile \in TrackedDeps(TheDeps)


(***************************************************************************)
(* C33 (files that declare themselves or each other)                       *)
(***************************************************************************)
\* When the last build started f was on a cycle of declarations of length
\* one (f declared itself) or two (f and another file declared each other).
OnCycleBefore(f) == \E g \in DependentsBefore(f) : f \in DependentsBefore(g)

\* C33: when the one edit between a build that returned without error and
\* the next build rewrote a processable file f that declares itself, or
\* that declares and is declared by another file, the next build calls
\* processString at most once per file, only for f and the files that
\* declared f, and for each of them when it succeeds; and a build that
\* follows a build without error with no edit in between, such a cycle
\* being declared, reports no invalidated file, derives no patch and calls
\* processString for no file.
C33_NoRepeatedInvalidation ==
  /\ \A f \in FilePaths :
       ( SingleContentChange(f) /\ OnCycleBefore(f) ) =>
         /\ NoDuplicates(psCalls)
         /\ Range(psCalls) \subseteq { f } \cup DependentsBefore(f)
         /\ lastResult # "early"
         /\ lastResult = "ok" => Range(psCalls) = { f } \cup DependentsBefore(f)
  /\ ( /\ pc = "idle" /\ builds >= 2
       /\ Succeeded(hist.prevResult)
       /\ hist.buildEdits = << >>
       /\ \E f \in FilePaths : OnCycleBefore(f) ) =>
       /\ invalidated = << >>
       /\ patches = << >>
       /\ psCalls = << >>
       /\ lastResult = "early"

\* a.js and d/b.js declared each other, a.js was rewritten, and the build
\* that followed transformed the two of them, once each.
C33_Witness ==
  /\ SingleContentChange(P_a_js)
  /\ DependentsBefore(P_a_js) = { P_d_b_js }
  /\ DependentsBefore(P_d_b_js) = { P_a_js }
  /\ lastResult = "ok"
  /\ Len(psCalls) = 2

\* a.js declared itself, was rewritten, and was transformed once.
C33_WitnessSelf ==
  /\ SingleContentChange(P_a_js)
  /\ DependentsBefore(P_a_js) = { P_a_js }
  /\ lastResult = "ok"
  /\ psCalls = << P_a_js >>

\* The third build, which follows the rebuild of a cycle with nothing
\* edited in between, has returned early.
C33_WitnessQuiet ==
  /\ pc = "idle" /\ builds = 3
  /\ hist.prevResult = "ok"
  /\ hist.buildEdits = << >>
  /\ \E f \in FilePaths : OnCycleBefore(f)
  /\ lastResult = "early"
  /\ clock >= 1


(***************************************************************************)
(* C34 (a dependency changed after the transform read it)                  *)
(***************************************************************************)
\* When the last build started the output of g had been made from g's
\* present text, but with a text of the file it inlines that is not the
\* present one: the dependency changed after g's transform last read it.
ReadBeforeChange(g) ==
  /\ canProcessFile(g)
  /\ input[g].k = "file"
  /\ input[g].c.ref # {}
  /\ hist.prevOutput[OutputPathOf(g)].k = "file"
  /\ hist.prevOutput[OutputPathOf(g)].text.v = input[g].c.v
  /\ hist.prevOutput[OutputPathOf(g)].text.inl # ReadTarget(CHOOSE t \in input[g].c.ref : TRUE)

\* C34: with dependency invalidation enabled, a build that follows a build
\* without error, the input being as the build found it, calls
\* processString for every file g whose declared dependency changed after
\* g's transform last read it, also when the change was made while the
\* build before was in progress.
C34_NoLostInvalidation ==
  ( /\ cfg.dependencyInvalidation
    /\ pc = "idle" /\ builds >= 2
    /\ hist.pendingEdits = << >>
    /\ Succeeded(hist.prevResult)
    /\ Succeeded(lastResult)
    /\ ~ hist.everCollided ) =>
    \A g \in FilePaths : ReadBeforeChange(g) => g \in Range(psCalls)


(***************************************************************************)
(* C35 (the inverse map of a sealed instance)                              *)
(***************************************************************************)
\* C35, as stated: whenever the instance is sealed, f is listed under
\* dependentsMap[d] if and only if d is among dependencyMap[f].
C35_ReverseIndex ==
  \A D \in dependencies :
    D.sealed =>
      \A f \in DepFiles : \A d \in { LocalDep, ExtFile } :
        ( d \in DOMAIN D.dependentsMap /\ f \in Range(D.dependentsMap[d]) )
        <=> ( f \in DOMAIN D.dependencyMap /\ d \in Range(D.dependencyMap[f]) )


(***************************************************************************)
(* C36 (distinct output paths)                                             *)
(***************************************************************************)
\* C36, as stated: under every extensions/targetExtension setting, the
\* output path getDestFilePath returns for a processable path is returned
\* for no other path.
C36_DistinctOutputs ==
  ( /\ call.op = "getDestFilePath" /\ call.done
    /\ \E d \in call.result : d # << >> ) =>
    \A q \in DestPaths \ { call.relativePath } :
      getDestFilePathOf(call.extensions, call.targetExtension, q) # call.result


(***************************************************************************)
(* C37 (the default key of a file)                                         *)
(***************************************************************************)
\* C37, as stated: two (contents, relativePath) pairs that differ in the
\* contents or in the path never give md5Hex the same string.
C37_KeyInputsDistinct ==
  ( call.op = "cacheKeyProcessString" /\ call.done /\ call.first # call.second )
  => call.hashed[1] # call.hashed[2]


(***************************************************************************)
(* C38 (the namespace of the persistent cache)                             *)
(***************************************************************************)
\* C38, as stated: the disk cache of every instance is created under the
\* value its own cacheKey() returns.
C38_OwnNamespace ==
  call.op = "init" =>
    \A i \in 1..Len(call.instances) :
      call.instances[i].cacheName = Filter_cacheKey(call.instances[i].ctx)


(***************************************************************************)
(* C39 (the resolved concurrency is a positive integer)                    *)
(***************************************************************************)
\* C39, as stated: whatever options.concurrency, env JOBS and the number of
\* cpus are, the concurrency of a constructed instance is at least 1.
C39_AtLeastOne == pc = "idle" => cfg.concurrency >= 1


(***************************************************************************)
(* C40 (build termination)                                                 *)
(***************************************************************************)
\* C40, as stated: when every transform invocation settles, a build that has
\* started settles (resolves or rejects), synchronous or asynchronous.
C40_BuildSettles == (pc # "idle") ~> (pc = "idle")

\* A build of an instance whose pool has at least one worker settles.
SettlesWithWorkers ==
  (pc # "idle" /\ (cfg.async => cfg.concurrency >= 1)) ~> (pc = "idle")

\* An asynchronous build waits on a pool that has work queued, nothing in
\* flight and no worker to start it.
PoolStalled ==
  /\ pc = "queue"
  /\ pendingWork # << >>
  /\ inFlight = {}
  /\ ~ CanStartTask

====
